---- MODULE Spec2Model ----
(***************************************************************************)
(* A model of the Link of ts-relayer (src/lib/link.ts) and of the ics20     *)
(* bootstrap command (src/binary/ibc-setup/commands/ics20.ts).              *)
(*                                                                         *)
(* Two chains, reached through the signing clients nodeA and nodeB, hold    *)
(* the on-chain IBC state.  The chain side (IbcClient, Endpoint, the proof  *)
(* helpers) is not part of the sources modelled here; its operations are    *)
(* modelled from the specification of the signing client (spec 4.1, 4.2).   *)
(* The Link's methods are translated step by step: every await of the code  *)
(* is one action, so that the environment (new blocks, new packets) and the *)
(* two directions of a relay iteration interleave as they do in the code.   *)
(***************************************************************************)
EXTENDS Integers, Sequences, FiniteSets, TLC

(***************************************************************************)
(* Bounds of the model.                                                     *)
(***************************************************************************)
\* highest block height a chain reaches
MaxHeight == 3
\* packets the two chains send at most, together
MaxPackets == 2
\* relay iterations the caller runs at most
MaxIterations == 2
\* highest value of a cursor field handed to the first iteration
MaxCursor == 2

Sides == {"A", "B"}
Nodes == {"nodeA", "nodeB"}

\* Math.max() of an empty list is -Infinity, and -Infinity + 1 is -Infinity.
\* Every height is >= 0, so -1 stands for it: it is below every height.
NegInfinity == -1

\* An optional value (Height | undefined, number | undefined) is <<>> or <<v>>.
Undefined == <<>>
Some(v) == <<v>>
OptHeights == {Undefined} \cup {Some(h) : h \in 0..MaxHeight}

VARIABLES
    \* ---- the two chains (spec 3, 4.1) ----
    tip,            \* node -> height of the latest block
    clientLatest,   \* node -> latestHeight of the light client held on that node
    sentPackets,    \* node -> set of packets-with-metadata sent from that node
    received,       \* node -> set of packets received on that node
    writtenAcks,    \* node -> set of acks-with-metadata written on that node
    acked,          \* node -> set of packets whose ack arrived on that node
    txs,            \* the transactions broadcast since the current call began, in order
    chainId,        \* node -> chain id
    clientState,    \* node -> state of the light client held on that node: [chainId]
    consensusState, \* node -> height -> consensus state the client on that node holds for it
    header,         \* node -> height -> header of that node at that height
    connection,     \* node -> the connection end held on that node, if any
    channelEnd,     \* node -> the channel end held on that node, if any
    nextSeq,        \* node -> counters the node mints client, connection and channel ids from
    \* ---- the Link ----
    link,           \* [endA, endB], each [node, clientID, connectionID]
    \* ---- one run of a constructor or of createChannel ----
    cpc,            \* position in the method
    cIn,            \* its arguments
    cLoc,           \* its local constants so far
    \* ---- one run of updateClientToHeight / relayPackets / relayAcks per source side ----
    rpc,            \* side -> position in the method
    rkind,          \* side -> "direct" | "packets" | "acks": who runs on that side
    rMin,           \* side -> minHeight (neededHeight) of updateClientToHeight
    rItems,         \* side -> the packets or acks being relayed
    rHeader,        \* side -> headerHeight returned by updateClientToHeight
    rProofs,        \* side -> proofs fetched so far, [item, height]
    rResult,        \* side -> acks returned by relayPackets
    waitFrom,       \* side -> source height when waitOneBlock was called
    rTrace,         \* side -> what the method did, in order
    \* ---- checkAndRelayPacketsAndAcks ----
    ipc,            \* position in the iteration
    relayFrom,      \* the cursor handed in
    pendingAtStart, \* side -> pending packets the iteration fetched at its start
    fetched,        \* sides whose pending query of the current phase has returned
    iterations,     \* iterations started so far
    returned        \* cursors returned so far, in order

chainVars == <<tip, clientLatest, sentPackets, received, writtenAcks, acked, txs>>
relayVars == <<rpc, rkind, rMin, rItems, rHeader, rProofs, rResult, waitFrom, rTrace>>
iterVars == <<ipc, relayFrom, pendingAtStart, fetched, iterations, returned>>
ibcVars == <<chainId, clientState, consensusState, header, connection, channelEnd, nextSeq>>
setupVars == <<ibcVars, cpc, cIn, cLoc>>
vars == <<chainVars, setupVars, link, relayVars, iterVars>>

\* identifiers the chains mint: 07-tendermint-<n>, connection-<n>, channel-<n>
ClientId(n) == <<"07-tendermint", n>>
ConnectionId(n) == <<"connection", n>>
ChannelId(n) == <<"channel", n>>

\* new Endpoint(client, clientID, connectionID), new Link(endA, endB)
Endpoint(node, clientID, connectionID) ==
    [node |-> node, clientID |-> clientID, connectionID |-> connectionID]
NewLink(endA, endB) == [endA |-> endA, endB |-> endB]
NoLink == <<>>

(***************************************************************************)
(* Sides and endpoints.                                                     *)
(***************************************************************************)
\* a flip that answers B for both sides
otherSideStuck(side) == "B"

otherSide(side) == IF side = "A" THEN "B" ELSE "A"

\* the chain at the other end
otherNode(n) == IF n = "nodeA" THEN "nodeB" ELSE "nodeA"

\* the ends of a call that takes side A for the source whatever src is
getEndsFromA(src) == [src |-> link.endA, dest |-> link.endB]

getEnds(src) ==
    IF src = "A" THEN [src |-> link.endA, dest |-> link.endB]
                 ELSE [src |-> link.endB, dest |-> link.endA]

\* client.latestHeight?.revisionHeight?.toNumber() ?? 0
revisionHeightOrZero(latestHeight) ==
    IF latestHeight = Undefined THEN 0 ELSE latestHeight[1]

\* Math.max(...heights)
MathMax(heights) ==
    IF heights = {} THEN NegInfinity
    ELSE CHOOSE m \in heights : \A h \in heights : h <= m

\* the highest commit height of the items itself
neededHeightWithoutOne(items) == MathMax({x.height : x \in items})

\* Math.max(...items.map((x) => x.height)) + 1
neededHeightOf(items) ==
    LET m == MathMax({x.height : x \in items})
    IN  IF m = NegInfinity THEN NegInfinity ELSE m + 1

(***************************************************************************)
(* The chains: queries (spec 4.1, 4.2).                                     *)
(***************************************************************************)
\* identifiers are strings of characters, the way the code joins and splits them
ThePort == <<"t", "r", "a", "n", "s", "f", "e", "r">>
TheChannel == <<"c", "h", "a", "n", "n", "e", "l", "-", "0">>

\* the packet with sequence number seq sent over the one channel of the link
PacketOf(seq) ==
    [sequence |-> seq,
     sourcePort |-> ThePort, sourceChannel |-> TheChannel,
     destinationPort |-> ThePort, destinationChannel |-> TheChannel]

\* Endpoint.querySentPackets({minHeight}): packets sent from node since minHeight
querySentPackets(node, minHeight) ==
    {p \in sentPackets[node] : minHeight = Undefined \/ p.height >= minHeight[1]}

\* Endpoint.queryWrittenAcks({minHeight}): acks written on node since minHeight
queryWrittenAcks(node, minHeight) ==
    {a \in writtenAcks[node] : minHeight = Undefined \/ a.height >= minHeight[1]}

\* query.ibc.channel.unreceivedPackets(port, channel, sequences) on node
unreceivedPackets(node, port, channel, sequences) ==
    {q \in sequences :
        ~ \E p \in received[node] :
            /\ p.destinationPort = port
            /\ p.destinationChannel = channel
            /\ p.sequence = q}

\* query.ibc.channel.unreceivedAcks(port, channel, sequences) on node
unreceivedAcks(node, port, channel, sequences) ==
    {q \in sequences :
        ~ \E p \in acked[node] :
            /\ p.sourcePort = port
            /\ p.sourceChannel = channel
            /\ p.sequence = q}

(***************************************************************************)
(* Pending packets and acks (link.ts 453-551, 631-635).  The grouping key   *)
(* is the string port ++ idDelim ++ channel, split again at idDelim.        *)
(***************************************************************************)
idDelim == <<":">>

\* a key made of the source port and channel of the packet
packetIdOfSource(packet) == packet.sourcePort \o idDelim \o packet.sourceChannel

packetId(packet) == packet.destinationPort \o idDelim \o packet.destinationChannel
ackId(packet) == packet.sourcePort \o idDelim \o packet.sourceChannel

\* String.prototype.split: the pieces of str between the separators
RECURSIVE split(_, _)
split(str, separator) ==
    IF \A i \in 1..Len(str) : <<str[i]>> # separator
    THEN <<str>>
    ELSE LET at == CHOOSE i \in 1..Len(str) :
                       /\ <<str[i]>> = separator
                       /\ \A j \in 1..(i - 1) : <<str[j]>> # separator
         IN  <<SubSeq(str, 1, at - 1)>> \o split(SubSeq(str, at + 1, Len(str)), separator)

\* const [port, channel] = destination.split(idDelim)
portAndChannel(destination) ==
    LET pieces == split(destination, idDelim)
    IN  <<pieces[1], IF Len(pieces) >= 2 THEN pieces[2] ELSE Undefined>>

\* packetsPerDestination: the sequences of the packets under each key
packetsPerDestination(packets, idFunc) ==
    [k \in {idFunc[p] : p \in packets} |->
        {p.sequence : p \in {x \in packets : idFunc[x] = k}}]

\* the calls of unreceivedQuery(port, channel, sequences) filterUnreceived makes
unreceivedQueries(packets, idFunc) ==
    IF packets = {} THEN {}
    ELSE LET sorted == packetsPerDestination(packets, idFunc)
         IN  {[port |-> portAndChannel(k)[1], channel |-> portAndChannel(k)[2],
               sequences |-> sorted[k]] : k \in DOMAIN sorted}

\* the callbacks unreceivedQuery and idFunc are passed as functions:
\* idFunc[packet], and unreceivedQuery[<<port, channel>>][sequences]
filterUnreceived(packets, unreceivedQuery, idFunc) ==
    IF packets = {} THEN [k \in {} |-> {}]
    ELSE LET sorted == packetsPerDestination(packets, idFunc)
         IN  [k \in DOMAIN sorted |-> unreceivedQuery[portAndChannel(k)][sorted[k]]]

getPendingPackets(source, minHeight) ==
    LET ends == getEnds(source)
        allPackets == querySentPackets(ends.src.node, minHeight)
        toFilter == {x.packet : x \in allPackets}
        idFunc == [p \in toFilter |-> packetId(p)]
        query == [k \in {<<p.destinationPort, p.destinationChannel>> : p \in toFilter} |->
                     [sequences \in SUBSET {p.sequence : p \in toFilter} |->
                         unreceivedPackets(ends.dest.node, k[1], k[2], sequences)]]
        unreceived == filterUnreceived(toFilter, query, idFunc)
    IN  {x \in allPackets : x.packet.sequence \in unreceived[packetId(x.packet)]}

getPendingAcks(source, minHeight) ==
    LET ends == getEnds(source)
        allAcks == queryWrittenAcks(ends.src.node, minHeight)
        toFilter == {x.originalPacket : x \in allAcks}
        idFunc == [p \in toFilter |-> ackId(p)]
        query == [k \in {<<p.sourcePort, p.sourceChannel>> : p \in toFilter} |->
                     [sequences \in SUBSET {p.sequence : p \in toFilter} |->
                         unreceivedAcks(ends.dest.node, k[1], k[2], sequences)]]
        unreceived == filterUnreceived(toFilter, query, idFunc)
    IN  {x \in allAcks :
            x.originalPacket.sequence \in unreceived[ackId(x.originalPacket)]}

(***************************************************************************)
(* The environment: the chains produce blocks, and users send packets.      *)
(* Packets are sent while no iteration runs: one sent while an iteration    *)
(* runs is seen by the queries of that iteration as if it had been sent     *)
(* before it, or not at all, and then it is seen by the next one.           *)
(***************************************************************************)
AdvanceBlock(n) ==
    /\ tip[n] < MaxHeight
    /\ tip' = [tip EXCEPT ![n] = @ + 1]
    /\ UNCHANGED <<clientLatest, sentPackets, received, writtenAcks, acked, txs>>
    /\ UNCHANGED <<setupVars, link, relayVars, iterVars>>

SendPacket(n) ==
    /\ Cardinality(sentPackets["nodeA"]) + Cardinality(sentPackets["nodeB"]) < MaxPackets
    /\ ipc = "idle"
    /\ sentPackets' = [sentPackets EXCEPT ![n] =
           @ \cup {[packet |-> PacketOf(Cardinality(sentPackets[n]) + 1),
                    height |-> tip[n]]}]
    /\ UNCHANGED <<tip, clientLatest, received, writtenAcks, acked, txs>>
    /\ UNCHANGED <<setupVars, link, relayVars, iterVars>>

Broadcast(node, msg) == Append(txs, [node |-> node, msg |-> msg])

(***************************************************************************)
(* updateClientToHeight (link.ts 320-340) and updateClient (269-274), one   *)
(* action per await.  Every RPC may fail (spec 4.1): ok = FALSE.            *)
(***************************************************************************)
Note(s, ev) == [rTrace EXCEPT ![s] = Append(@, ev)]

\* an early return only for a known height above minHeight
knownHeightExceeds(knownHeight, minHeight, latestHeight) ==
    knownHeight > minHeight /\ latestHeight # Undefined

\* if (knownHeight >= minHeight && client.latestHeight !== undefined)
knownHeightSuffices(knownHeight, minHeight, latestHeight) ==
    knownHeight >= minHeight /\ latestHeight # Undefined

\* const client = await dest.client.query.ibc.client.stateTm(dest.clientID)
\* and the early return when the known height suffices
UcState(s) ==
    /\ rpc[s] = "ucState"
    /\ \E ok \in BOOLEAN :
        LET client == clientLatest[getEnds(s).dest.node]
            knownHeight == revisionHeightOrZero(client)
        IN  IF ~ok
            THEN /\ rpc' = [rpc EXCEPT ![s] = "error"]
                 /\ UNCHANGED <<rHeader, rTrace>>
            ELSE IF knownHeightSuffices(knownHeight, rMin[s], client)
            THEN /\ rpc' = [rpc EXCEPT ![s] = "ucReturned"]
                 /\ rHeader' = [rHeader EXCEPT ![s] = client]
                 /\ rTrace' = Note(s, [ev |-> "known", h |-> client])
            ELSE /\ rpc' = [rpc EXCEPT ![s] = "ucHeader"]
                 /\ UNCHANGED <<rHeader, rTrace>>
    /\ UNCHANGED <<chainVars, setupVars, link, iterVars>>
    /\ UNCHANGED <<rkind, rMin, rItems, rProofs, rResult, waitFrom>>

\* const curHeight = (await src.client.latestHeader()).height;
\* if (curHeight < minHeight) { await src.client.waitOneBlock(); }
UcHeader(s) ==
    /\ rpc[s] = "ucHeader"
    /\ \E ok \in BOOLEAN :
        LET curHeight == tip[getEnds(s).src.node]
        IN  IF ~ok
            THEN /\ rpc' = [rpc EXCEPT ![s] = "error"]
                 /\ UNCHANGED waitFrom
            ELSE IF curHeight < rMin[s]
            THEN /\ rpc' = [rpc EXCEPT ![s] = "ucWait"]
                 /\ waitFrom' = [waitFrom EXCEPT ![s] = curHeight]
            ELSE /\ rpc' = [rpc EXCEPT ![s] = "ucUpdate"]
                 /\ UNCHANGED waitFrom
    /\ UNCHANGED <<chainVars, setupVars, link, iterVars>>
    /\ UNCHANGED <<rkind, rMin, rItems, rHeader, rProofs, rResult, rTrace>>

\* waitOneBlock returns when the chain height has advanced at least once
UcWait(s) ==
    /\ rpc[s] = "ucWait"
    /\ tip[getEnds(s).src.node] > waitFrom[s]
    /\ rpc' = [rpc EXCEPT ![s] = "ucUpdate"]
    /\ UNCHANGED <<chainVars, setupVars, link, iterVars>>
    /\ UNCHANGED <<rkind, rMin, rItems, rHeader, rProofs, rResult, waitFrom, rTrace>>

\* dest.client.doUpdateClient(dest.clientID, src.client): the latest header of
\* the source is submitted to the destination, whose client then knows the
\* source at that height (spec 4.5)
doUpdateClient(dest, src) == [clientLatest EXCEPT ![dest.node] = Some(tip[src.node])]

\* return this.updateClient(source)
UcUpdate(s) ==
    /\ rpc[s] = "ucUpdate"
    /\ LET ends == getEnds(s)
       IN  /\ txs' = Broadcast(ends.dest.node, "updateClient")
           /\ \E ok \in BOOLEAN :
               IF ok
               THEN /\ clientLatest' = doUpdateClient(ends.dest, ends.src)
                    /\ rHeader' = [rHeader EXCEPT ![s] = Some(tip[ends.src.node])]
                    /\ rpc' = [rpc EXCEPT ![s] = "ucReturned"]
                    /\ rTrace' = Note(s, [ev |-> "updated", h |-> Some(tip[ends.src.node])])
               ELSE /\ rpc' = [rpc EXCEPT ![s] = "error"]
                    /\ UNCHANGED <<clientLatest, rHeader, rTrace>>
    /\ UNCHANGED <<tip, sentPackets, received, writtenAcks, acked>>
    /\ UNCHANGED <<setupVars, link, iterVars>>
    /\ UNCHANGED <<rkind, rMin, rItems, rProofs, rResult, waitFrom>>

\* link.updateClient(sender) called by the relayer's heartbeat between iterations
UpdateClientCall(s) ==
    /\ ipc = "idle"
    /\ LET ends == getEnds(s)
       IN  /\ clientLatest[ends.dest.node] # Some(tip[ends.src.node])
           /\ txs' = <<[node |-> ends.dest.node, msg |-> "updateClient"]>>
           /\ clientLatest' = doUpdateClient(ends.dest, ends.src)
    /\ UNCHANGED <<tip, sentPackets, received, writtenAcks, acked>>
    /\ UNCHANGED <<setupVars, link, relayVars, iterVars>>

UpdateClientToHeightStep(s) == UcState(s) \/ UcHeader(s) \/ UcWait(s) \/ UcUpdate(s)

(***************************************************************************)
(* relayPackets (link.ts 565-587) and relayAcks (594-614) after their       *)
(* updateClientToHeight has returned: the proofs, then the broadcast.       *)
(***************************************************************************)
\* the packet an item (a packet- or an ack-with-metadata) is about
PacketOfItem(kind, x) == IF kind = "packets" THEN x.packet ELSE x.originalPacket

\* src.client.getPacketProof(packet, headerHeight) / getAckProof(ack, headerHeight),
\* one call per item, all running in parallel
RelayProof(s, x) ==
    /\ rpc[s] = "ucReturned"
    /\ rkind[s] \in {"packets", "acks"}
    /\ x \in rItems[s]
    /\ ~ \E pr \in rProofs[s] : pr.item = x
    /\ \E ok \in BOOLEAN :
        IF ok
        THEN /\ rProofs' = [rProofs EXCEPT ![s] = @ \cup {[item |-> x, height |-> rHeader[s]]}]
             /\ rTrace' = Note(s, [ev |-> "proof", h |-> rHeader[s]])
             /\ UNCHANGED rpc
        ELSE /\ rpc' = [rpc EXCEPT ![s] = "error"]
             /\ UNCHANGED <<rProofs, rTrace>>
    /\ UNCHANGED <<chainVars, setupVars, link, iterVars>>
    /\ UNCHANGED <<rkind, rMin, rItems, rHeader, rResult, waitFrom>>

\* a relay that hands the height it asked for, not the one the update returned
proofHeightNeeded(s) == Some(rMin[s])

\* the height handed to receivePackets / acknowledgePackets as proofHeight
proofHeightOf(s) == rHeader[s]

\* a relay that leaves the packet of the lowest sequence number out
submitAllButFirst(kind, items) ==
    LET all == {PacketOfItem(kind, x) : x \in items}
    IN  {p \in all : \E q \in all : q.sequence < p.sequence}

\* const submit = packets.map(({ packet }) => packet): what the transaction carries
submit(kind, items) == {PacketOfItem(kind, x) : x \in items}

\* dest.client.receivePackets(submit, proofs, headerHeight) succeeded: the
\* packets are received on node, which writes an ack for each newly received
\* one in the block of the transaction (spec 4.1, 4.7)
receivePackets(node, packets) ==
    /\ received' = [received EXCEPT ![node] = @ \cup packets]
    /\ writtenAcks' = [writtenAcks EXCEPT ![node] =
           @ \cup {[originalPacket |-> p, height |-> tip[node]] : p \in packets \ received[node]}]
    /\ UNCHANGED acked

\* dest.client.acknowledgePackets(acks, proofs, headerHeight) succeeded
acknowledgePackets(node, packets) ==
    /\ acked' = [acked EXCEPT ![node] = @ \cup packets]
    /\ UNCHANGED <<received, writtenAcks>>

\* parseAcksFromLogs(logs), each tagged with the inclusion height
acksOfReceive(node, packets) ==
    {[originalPacket |-> p, height |-> tip[node]] : p \in packets \ received[node]}

\* await dest.client.receivePackets(...) / acknowledgePackets(...), once every
\* proof is there (Promise.all over the proofs)
RelayBroadcast(s) ==
    /\ rpc[s] = "ucReturned"
    /\ rkind[s] \in {"packets", "acks"}
    /\ \A x \in rItems[s] : \E pr \in rProofs[s] : pr.item = x
    /\ LET dest == getEnds(s).dest.node
           packets == submit(rkind[s], rItems[s])
           msg == IF rkind[s] = "packets" THEN "receivePackets" ELSE "acknowledgePackets"
       IN  /\ txs' = Append(txs, [node |-> dest, msg |-> msg, packets |-> packets,
                                  proofHeight |-> proofHeightOf(s)])
           /\ rTrace' = Note(s, [ev |-> "broadcast", h |-> proofHeightOf(s)])
           /\ \E ok \in BOOLEAN :
               IF ok
               THEN /\ IF rkind[s] = "packets"
                       THEN receivePackets(dest, packets)
                       ELSE acknowledgePackets(dest, packets)
                    /\ rResult' = [rResult EXCEPT ![s] =
                           IF rkind[s] = "packets" THEN acksOfReceive(dest, packets) ELSE {}]
                    /\ rpc' = [rpc EXCEPT ![s] = "done"]
               ELSE /\ rpc' = [rpc EXCEPT ![s] = "error"]
                    /\ UNCHANGED <<received, writtenAcks, acked, rResult>>
    /\ UNCHANGED <<tip, clientLatest, sentPackets>>
    /\ UNCHANGED <<setupVars, link, iterVars>>
    /\ UNCHANGED <<rkind, rMin, rItems, rHeader, rProofs, waitFrom>>

RelayStep(s) ==
    \/ UpdateClientToHeightStep(s)
    \/ \E x \in rItems[s] : RelayProof(s, x)
    \/ RelayBroadcast(s)

(***************************************************************************)
(* checkAndRelayPacketsAndAcks (link.ts 427-451).                           *)
(***************************************************************************)
CursorFields == {"packetHeighA", "packetHeightB", "ackHeightA", "ackHeightB"}
CursorValues == {Undefined, Some(MaxCursor)}
\* the cursors handed to the first iteration: the empty one of a first run, and
\* cursors whose fields of one or of both directions are set
CursorInputs ==
    {c \in [CursorFields -> CursorValues] :
        /\ c.packetHeighA = c.ackHeightB
        /\ c.packetHeightB = c.ackHeightA
        /\ (c.packetHeightB # Undefined => c.packetHeighA # Undefined)}

packetField(s) == IF s = "A" THEN "packetHeighA" ELSE "packetHeightB"
ackField(s) == IF s = "A" THEN "ackHeightA" ELSE "ackHeightB"

\* both relayPackets / relayAcks calls are made, each running to its first await
StartRelays(kind, items) ==
    /\ rkind' = [s \in Sides |-> kind]
    /\ rItems' = items
    /\ rMin' = [s \in Sides |-> neededHeightOf(items[s])]
    /\ rpc' = [s \in Sides |-> "ucState"]
    /\ rHeader' = [s \in Sides |-> Undefined]
    /\ rProofs' = [s \in Sides |-> {}]
    /\ rResult' = [s \in Sides |-> {}]
    /\ rTrace' = [s \in Sides |-> <<>>]
    /\ waitFrom' = [s \in Sides |-> 0]

\* no relayPackets / relayAcks / updateClientToHeight is running
ResetRelayVars ==
    /\ rpc' = [s \in Sides |-> "idle"]
    /\ rkind' = [s \in Sides |-> "direct"]
    /\ rMin' = [s \in Sides |-> 0]
    /\ rItems' = [s \in Sides |-> {}]
    /\ rHeader' = [s \in Sides |-> Undefined]
    /\ rProofs' = [s \in Sides |-> {}]
    /\ rResult' = [s \in Sides |-> {}]
    /\ waitFrom' = [s \in Sides |-> 0]
    /\ rTrace' = [s \in Sides |-> <<>>]

\* the caller runs an iteration, threading the cursor the previous one returned
StartIteration ==
    /\ ipc = "idle"
    /\ iterations < MaxIterations
    /\ \E cursor \in (IF returned = <<>> THEN CursorInputs ELSE {returned[Len(returned)]}) :
        relayFrom' = cursor
    /\ ipc' = "getPackets"
    /\ fetched' = {}
    /\ pendingAtStart' = [s \in Sides |-> {}]
    /\ iterations' = iterations + 1
    /\ txs' = <<>>
    /\ ResetRelayVars
    /\ UNCHANGED <<tip, clientLatest, sentPackets, received, writtenAcks, acked>>
    /\ UNCHANGED <<setupVars, link, returned>>

\* this.getPendingPackets(s, { minHeight: relayFrom.packetHeigh<s> }); once both
\* have returned, both relayPackets are started
FetchPackets(s) ==
    /\ ipc = "getPackets"
    /\ s \notin fetched
    /\ \E ok \in BOOLEAN :
        IF ~ok
        THEN /\ ipc' = "error"
             /\ UNCHANGED <<fetched, pendingAtStart, relayVars>>
        ELSE LET packets == [pendingAtStart EXCEPT
                                ![s] = getPendingPackets(s, relayFrom[packetField(s)])]
             IN  /\ pendingAtStart' = packets
                 /\ fetched' = fetched \cup {s}
                 /\ IF fetched' = Sides
                    THEN ipc' = "relayPackets" /\ StartRelays("packets", packets)
                    ELSE UNCHANGED <<ipc, relayVars>>
    /\ UNCHANGED <<chainVars, setupVars, link, relayFrom, iterations, returned>>

\* an await that goes on once both relays have settled, failed or not
PacketsSettled ==
    /\ ipc = "relayPackets"
    /\ \A s \in Sides : rpc[s] \in {"done", "error"}
    /\ ipc' = "getAcks"
    /\ fetched' = {}
    /\ ResetRelayVars
    /\ UNCHANGED <<chainVars, setupVars, link, relayFrom, pendingAtStart, iterations, returned>>

\* await Promise.all([relayPackets('A', ..), relayPackets('B', ..)]) resolves
PacketsRelayed ==
    /\ ipc = "relayPackets"
    /\ \A s \in Sides : rpc[s] = "done"
    /\ ipc' = "getAcks"
    /\ fetched' = {}
    /\ ResetRelayVars
    /\ UNCHANGED <<chainVars, setupVars, link, relayFrom, pendingAtStart, iterations, returned>>

\* this.getPendingAcks(s, { minHeight: relayFrom.ackHeight<s> }); once both have
\* returned, both relayAcks are started
FetchAcks(s) ==
    /\ ipc = "getAcks"
    /\ s \notin fetched
    /\ \E ok \in BOOLEAN :
        IF ~ok
        THEN /\ ipc' = "error"
             /\ UNCHANGED <<fetched, relayVars>>
        ELSE LET acks == [rItems EXCEPT ![s] = getPendingAcks(s, relayFrom[ackField(s)])]
             IN  /\ fetched' = fetched \cup {s}
                 /\ IF fetched' = Sides
                    THEN ipc' = "relayAcks" /\ StartRelays("acks", acks)
                    ELSE /\ rItems' = acks
                         /\ UNCHANGED <<ipc, rpc, rkind, rMin, rHeader, rProofs,
                                        rResult, waitFrom, rTrace>>
    /\ UNCHANGED <<chainVars, setupVars, link, relayFrom, pendingAtStart, iterations, returned>>

\* an iteration that returns a fresh, empty cursor
returnedEmptyCursor(cursor) == [f \in CursorFields |-> Undefined]

\* the cursor the iteration returns: `return relayFrom`
returnedCursor(cursor) == cursor

\* await Promise.all([relayAcks('A', ..), relayAcks('B', ..)]) resolves, and the
\* iteration returns
AcksRelayed ==
    /\ ipc = "relayAcks"
    /\ \A s \in Sides : rpc[s] = "done"
    /\ ipc' = "done"
    /\ returned' = Append(returned, returnedCursor(relayFrom))
    /\ UNCHANGED <<chainVars, setupVars, link, relayVars>>
    /\ UNCHANGED <<relayFrom, pendingAtStart, fetched, iterations>>

\* the caller has the cursor of the iteration that returned
IterationReturned ==
    /\ ipc = "done"
    /\ ipc' = "idle"
    /\ UNCHANGED <<chainVars, setupVars, link, relayVars>>
    /\ UNCHANGED <<relayFrom, pendingAtStart, fetched, iterations, returned>>

\* a rejected promise of either Promise.all rejects the iteration; the other
\* direction is not cancelled
IterationFails ==
    /\ ipc \in {"relayPackets", "relayAcks"}
    /\ \E s \in Sides : rpc[s] = "error"
    /\ ipc' = "error"
    /\ UNCHANGED <<chainVars, setupVars, link, relayVars>>
    /\ UNCHANGED <<relayFrom, pendingAtStart, fetched, iterations, returned>>

InitRelayVars ==
    /\ rpc = [s \in Sides |-> "idle"]
    /\ rkind = [s \in Sides |-> "direct"]
    /\ rMin = [s \in Sides |-> 0]
    /\ rItems = [s \in Sides |-> {}]
    /\ rHeader = [s \in Sides |-> Undefined]
    /\ rProofs = [s \in Sides |-> {}]
    /\ rResult = [s \in Sides |-> {}]
    /\ waitFrom = [s \in Sides |-> 0]
    /\ rTrace = [s \in Sides |-> <<>>]

InitIterVars ==
    /\ ipc = "idle"
    /\ relayFrom = [f \in CursorFields |-> Undefined]
    /\ pendingAtStart = [s \in Sides |-> {}]
    /\ fetched = {}
    /\ iterations = 0
    /\ returned = <<>>

(***************************************************************************)
(* On-chain IBC state the constructors read and the handshakes write.       *)
(***************************************************************************)
\* State.STATE_OPEN of codec/ibc/core/channel/v1/channel, which link.ts
\* imports and compares connection states with
STATE_OPEN == 3
\* State of codec/ibc/core/connection/v1/connection: the states a chain stores
CONNECTION_STATE_INIT == 1
CONNECTION_STATE_TRYOPEN == 2
CONNECTION_STATE_OPEN == 3

ChainIds == {"chain-A", "chain-B"}
ChainIdOf(node) == IF node = "nodeA" THEN "chain-A" ELSE "chain-B"

\* node.query.ibc.connection.connection(id).connection
queryConnection(node, id) ==
    IF connection[node] # Undefined /\ connection[node][1].id = id
    THEN connection[node] ELSE Undefined

Heights == 1..MaxHeight

\* the header of node at height h: the chains differ, and so do the heights
HeaderOf(node, h) ==
    [nextValidatorsHash |-> <<"vals", node, h>>, appHash |-> <<"app", node, h>>,
     time |-> h]
TheHeaders == [n \in Nodes |-> [h \in Heights |-> HeaderOf(n, h)]]

\* the consensus state a client holds for a header it was given
ConsensusOf(hdr) ==
    [nextValidatorsHash |-> hdr.nextValidatorsHash, root |-> Some(hdr.appHash),
     timestamp |-> Some([seconds |-> hdr.time])]

\* the consensus states of a client on node that was given the counterparty's
\* headers
MatchingConsensus(node) == [h \in Heights |-> ConsensusOf(HeaderOf(otherNode(node), h))]

\* the ways the consensus state held on node for height h may look: right, or
\* with the validators hash or the root of another header, or without root
ConsensusDefects == {"none", "nextValidatorsHash", "rootMissing", "root"}
ConsensusWith(node, h, defect) ==
    LET right == MatchingConsensus(node)[h]
        other == ConsensusOf(HeaderOf(node, h))
    IN  CASE defect = "none" -> right
          [] defect = "nextValidatorsHash" ->
                 [right EXCEPT !.nextValidatorsHash = other.nextValidatorsHash]
          [] defect = "rootMissing" -> [right EXCEPT !.root = Undefined]
          [] defect = "root" -> [right EXCEPT !.root = other.root]

\* a pair of chains with an open connection between their clients
EstablishedSetup ==
    /\ chainId = [n \in Nodes |-> ChainIdOf(n)]
    /\ clientState = [n \in Nodes |-> [chainId |-> ChainIdOf(otherNode(n))]]
    /\ consensusState = [n \in Nodes |-> MatchingConsensus(n)]
    /\ header = TheHeaders
    /\ connection = [n \in Nodes |->
           Some([id |-> ConnectionId(0), clientId |-> ClientId(0),
                 counterparty |-> Some([clientId |-> ClientId(0)]),
                 state |-> CONNECTION_STATE_OPEN])]
    /\ channelEnd = [n \in Nodes |-> Undefined]
    /\ nextSeq = [n \in Nodes |-> [client |-> 1, connection |-> 1, channel |-> 0]]
    /\ cpc = "idle"
    /\ cIn = <<>>
    /\ cLoc = <<>>

\* no packet has been sent, and nothing is running on the link
QuietChains ==
    /\ sentPackets = [n \in Nodes |-> {}]
    /\ received = [n \in Nodes |-> {}]
    /\ writtenAcks = [n \in Nodes |-> {}]
    /\ acked = [n \in Nodes |-> {}]
    /\ txs = <<>>

(***************************************************************************)
(* Link.createWithExistingConnections (link.ts 73-157) and                  *)
(* assertHeadersMatchConsensusState (166-195).                              *)
(***************************************************************************)
\* a check of the connections that reads connection A's state twice
connectionsErrorStateOfATwice(connectionA, connectionB) ==
    IF connectionA = Undefined THEN "Connection not found A"
    ELSE IF connectionB = Undefined THEN "Connection not found B"
    ELSE IF connectionA[1].counterparty = Undefined THEN "Counterparty not found A"
    ELSE IF connectionB[1].counterparty = Undefined THEN "Counterparty not found B"
    ELSE IF connectionA[1].state # STATE_OPEN THEN "Connection A must be in state open"
    ELSE IF connectionA[1].state # STATE_OPEN THEN "Connection B must be in state open"
    ELSE IF connectionA[1].clientId # connectionB[1].counterparty[1].clientId
    THEN "Client ID A does not match counterparty"
    ELSE IF connectionB[1].clientId # connectionA[1].counterparty[1].clientId
    THEN "Client ID B does not match counterparty"
    ELSE "none"

\* lines 87-121: the error thrown on the two queried connections, or "none"
connectionsError(connectionA, connectionB) ==
    IF connectionA = Undefined THEN "Connection not found A"
    ELSE IF connectionB = Undefined THEN "Connection not found B"
    ELSE IF connectionA[1].counterparty = Undefined THEN "Counterparty not found A"
    ELSE IF connectionB[1].counterparty = Undefined THEN "Counterparty not found B"
    ELSE IF connectionA[1].state # STATE_OPEN THEN "Connection A must be in state open"
    ELSE IF connectionB[1].state # STATE_OPEN THEN "Connection B must be in state open"
    ELSE IF connectionA[1].clientId # connectionB[1].counterparty[1].clientId
    THEN "Client ID A does not match counterparty"
    ELSE IF connectionB[1].clientId # connectionA[1].counterparty[1].clientId
    THEN "Client ID B does not match counterparty"
    ELSE "none"

\* lines 128-137: the error thrown on the chain ids, or "none"
chainIdsError(chainIdA, chainIdB, clientStateA, clientStateB) ==
    IF chainIdA # clientStateB.chainId THEN "Chain ID A does not match remote chain ID"
    ELSE IF chainIdB # clientStateA.chainId THEN "Chain ID B does not match remote chain ID"
    ELSE "none"

\* arrayContentEquals(a, b)
arrayContentEquals(a, b) == a = b

\* a check of consensus state and header that stops after the validators hash
headersMatchErrorValidatorsOnly(consensus, hdr) ==
    IF ~arrayContentEquals(consensus.nextValidatorsHash, hdr.nextValidatorsHash)
    THEN "NextValidatorHash doesn't match ConsensusState."
    ELSE "none"

\* lines 178-194: the error thrown on a consensus state and a header, or "none"
headersMatchError(consensus, hdr) ==
    IF ~arrayContentEquals(consensus.nextValidatorsHash, hdr.nextValidatorsHash)
    THEN "NextValidatorHash doesn't match ConsensusState."
    ELSE IF consensus.root = Undefined THEN "ConsensusState.root.hash missing."
    ELSE IF ~arrayContentEquals(consensus.root[1], hdr.appHash)
    THEN "AppHash doesn't match ConsensusState."
    ELSE "none"

\* assertHeadersMatchConsensusState(proofSide, ..) on the link lnk: the consensus
\* state of the proof side against the header of the other side
assertHeadersMatchConsensusState(lnk, proofSide, height) ==
    LET src == IF proofSide = "A" THEN lnk.endA ELSE lnk.endB
        dest == IF proofSide = "A" THEN lnk.endB ELSE lnk.endA
    IN  headersMatchError(consensusState[src.node][height], header[dest.node][height])

\* a constructor that pushes a header to B's client at each of its steps
CwecFrameWithUpdate ==
    /\ txs' = Append(txs, [node |-> "nodeB", msg |-> "updateClient"])
    /\ UNCHANGED <<tip, clientLatest, sentPackets, received, writtenAcks, acked>>
    /\ UNCHANGED <<ibcVars, relayVars, iterVars>>

\* every await of createWithExistingConnections is a query (lines 80-137,
\* 174-177): the chains are left as they are
CwecFrame == UNCHANGED <<chainVars, ibcVars, relayVars, iterVars>>

CallCreateWithExistingConnections(connA, connB) ==
    /\ cpc = "idle"
    /\ cpc' = "connections"
    /\ cIn' = [connA |-> connA, connB |-> connB]
    /\ UNCHANGED <<cLoc, link>>
    /\ CwecFrame

\* the two connection queries, and the checks on what they returned
CwecConnections ==
    /\ cpc = "connections"
    /\ \E ok \in BOOLEAN :
        LET connectionA == queryConnection("nodeA", cIn.connA)
            connectionB == queryConnection("nodeB", cIn.connB)
        IN  IF ok /\ connectionsError(connectionA, connectionB) = "none"
            THEN /\ cpc' = "clients"
                 /\ cLoc' = [clientIdA |-> connectionA[1].clientId,
                             clientIdB |-> connectionB[1].clientId]
            ELSE /\ cpc' = "error"
                 /\ UNCHANGED cLoc
    /\ UNCHANGED <<cIn, link>>
    /\ CwecFrame

\* the chain ids and the client states, and the checks on them
CwecClients ==
    /\ cpc = "clients"
    /\ \E ok \in BOOLEAN :
        IF ok /\ chainIdsError(chainId["nodeA"], chainId["nodeB"],
                              clientState["nodeA"], clientState["nodeB"]) = "none"
        THEN /\ cpc' = "headers"
             /\ cLoc' = [clientIdA |-> cLoc.clientIdA, clientIdB |-> cLoc.clientIdB,
                         latestHeightA |-> clientLatest["nodeA"][1],
                         latestHeightB |-> clientLatest["nodeB"][1]]
        ELSE /\ cpc' = "error"
             /\ UNCHANGED cLoc
    /\ UNCHANGED <<cIn, link>>
    /\ CwecFrame

\* new Link(endA, endB), the two assertHeadersMatchConsensusState, return link
CwecHeaders ==
    /\ cpc = "headers"
    /\ \E ok \in BOOLEAN :
        LET endA == Endpoint("nodeA", cLoc.clientIdA, cIn.connA)
            endB == Endpoint("nodeB", cLoc.clientIdB, cIn.connB)
            lnk == NewLink(endA, endB)
        IN  IF /\ ok
               /\ assertHeadersMatchConsensusState(lnk, "A", cLoc.latestHeightA) = "none"
               /\ assertHeadersMatchConsensusState(lnk, "B", cLoc.latestHeightB) = "none"
            THEN /\ cpc' = "returned"
                 /\ link' = lnk
            ELSE /\ cpc' = "error"
                 /\ UNCHANGED link
    /\ UNCHANGED <<cIn, cLoc>>
    /\ CwecFrame

ConnectionIds == {ConnectionId(0), ConnectionId(1)}
ClientIds == {ClientId(0), ClientId(9)}

\* the connection ends a chain may hold under the id connection-0
ConnectionEnds ==
    {Undefined} \cup
    {Some(c) : c \in [id : {ConnectionId(0)},
                      clientId : ClientIds,
                      counterparty : {Undefined} \cup {Some(cp) : cp \in [clientId : ClientIds]},
                      state : {CONNECTION_STATE_INIT, CONNECTION_STATE_TRYOPEN,
                               CONNECTION_STATE_OPEN}]}

InitExisting ==
    /\ tip = [n \in Nodes |-> 2]
    /\ clientLatest \in [Nodes -> {Some(1), Some(2)}]
    /\ QuietChains
    /\ chainId = [n \in Nodes |-> ChainIdOf(n)]
    /\ clientState \in [Nodes -> [chainId : ChainIds]]
    /\ \E defect \in [Nodes -> ConsensusDefects] :
        consensusState = [n \in Nodes |-> [h \in Heights |->
            IF h = clientLatest[n][1] THEN ConsensusWith(n, h, defect[n])
                                      ELSE MatchingConsensus(n)[h]]]
    /\ header = TheHeaders
    /\ connection \in [Nodes -> ConnectionEnds]
    /\ channelEnd = [n \in Nodes |-> Undefined]
    /\ nextSeq = [n \in Nodes |-> [client |-> 10, connection |-> 1, channel |-> 0]]
    /\ cpc = "idle"
    /\ cIn = <<>>
    /\ cLoc = <<>>
    /\ link = NoLink
    /\ InitRelayVars
    /\ InitIterVars

NextExisting ==
    \/ \E connA \in ConnectionIds, connB \in ConnectionIds :
           CallCreateWithExistingConnections(connA, connB)
    \/ CwecConnections
    \/ CwecClients
    \/ CwecHeaders

SpecExisting == InitExisting /\ [][NextExisting]_vars

(***************************************************************************)
(* Link.createWithNewConnections (link.ts 204-250) and createClients        *)
(* (647-666), one action per await.  A query may fail; a broadcast may be   *)
(* rejected, and is logged in txs with ok = FALSE.                          *)
(***************************************************************************)
\* bound: the client and connection counters of a chain start in 0..MaxSeq
MaxSeq == 1

\* an entry of the log of broadcasts
Tx(node, msg, ok, minted, arg) ==
    [node |-> node, msg |-> msg, ok |-> ok, minted |-> minted, arg |-> arg]

\* buildCreateClientArgs(src, ..): a client state and consensus state of src
buildCreateClientArgs(src) ==
    [clientState |-> [chainId |-> chainId[src], latestHeight |-> tip[src]],
     consensusState |-> ConsensusOf(header[src][tip[src]])]

\* prepareConnectionHandshake(src, dest, clientIdSrc, clientIdDest, connIdSrc):
\* the proofs of src's client and connection, queried at a height dest knows
prepareConnectionHandshake(src, dest, clientIdSrc, clientIdDest, connIdSrc) ==
    [src |-> src, clientId |-> clientIdSrc, connectionId |-> connIdSrc,
     known |-> clientLatest[dest]]

\* the connection end a chain stores at each step of the handshake
ConnectionEnd(id, clientId, counterpartyClientId, state) ==
    Some([id |-> id, clientId |-> clientId,
          counterparty |-> Some([clientId |-> counterpartyClientId]),
          state |-> state])

\* the locals of createWithNewConnections
NoLocals ==
    [args |-> Undefined, clientIdA |-> Undefined, clientIdB |-> Undefined,
     connIdA |-> Undefined, connIdB |-> Undefined, proof |-> Undefined]

\* a step that awaits a query: it fails, or leaves its result in the locals
CwncQuery(from, to, field, value) ==
    /\ cpc = from
    /\ \E ok \in BOOLEAN :
        IF ok THEN /\ cpc' = to
                   /\ cLoc' = [cLoc EXCEPT ![field] = value]
              ELSE /\ cpc' = "error"
                   /\ UNCHANGED cLoc
    /\ UNCHANGED <<chainVars, ibcVars, cIn, link, relayVars, iterVars>>

\* a method that awaits the same broadcast again when it was rejected
retriedAwait(position) == position

\* no await of createWithNewConnections (204-250) or createChannel (342-417)
\* is inside a try: a rejected one ends the method, which throws
rejectedAwait(position) == "error"

\* a rejected broadcast: logged, and the call fails
Rejected(node, msg, arg) ==
    /\ txs' = Append(txs, Tx(node, msg, FALSE, Undefined, arg))
    /\ cpc' = rejectedAwait(cpc)
    /\ UNCHANGED <<tip, clientLatest, sentPackets, received, writtenAcks, acked>>
    /\ UNCHANGED <<ibcVars, cIn, cLoc, link, relayVars, iterVars>>

CallCreateWithNewConnections ==
    /\ cpc = "idle"
    /\ cpc' = "cwnc:argsA"
    /\ cLoc' = NoLocals
    /\ UNCHANGED <<chainVars, ibcVars, cIn, link, relayVars, iterVars>>

\* createClients: const args = await buildCreateClientArgs(nodeA, ..)
CwncArgsA ==
    CwncQuery("cwnc:argsA", "cwnc:clientB", "args", buildCreateClientArgs("nodeA"))

\* node.createTendermintClient(clientState, consensusState), stored in field
CwncCreateClient(from, to, node, field) ==
    /\ cpc = from
    /\ \/ Rejected(node, "createTendermintClient", cLoc.args)
       \/ LET clientId == ClientId(nextSeq[node].client)
          IN  /\ txs' = Append(txs, Tx(node, "createTendermintClient", TRUE,
                                       clientId, cLoc.args))
              /\ nextSeq' = [nextSeq EXCEPT ![node].client = @ + 1]
              /\ clientState' = [clientState EXCEPT ![node] =
                     [chainId |-> cLoc.args.clientState.chainId]]
              /\ clientLatest' = [clientLatest EXCEPT ![node] =
                     Some(cLoc.args.clientState.latestHeight)]
              /\ consensusState' = [consensusState EXCEPT
                     ![node][cLoc.args.clientState.latestHeight] = cLoc.args.consensusState]
              /\ cLoc' = [cLoc EXCEPT ![field] = clientId]
              /\ cpc' = to
              /\ UNCHANGED <<tip, sentPackets, received, writtenAcks, acked>>
              /\ UNCHANGED <<chainId, header, connection, channelEnd>>
              /\ UNCHANGED <<cIn, link, relayVars, iterVars>>

\* createClients: await nodeB.createTendermintClient(args..)
CwncClientB == CwncCreateClient("cwnc:clientB", "cwnc:argsB", "nodeB", "clientIdB")

\* createClients: const args2 = await buildCreateClientArgs(nodeB, ..)
CwncArgsB ==
    CwncQuery("cwnc:argsB", "cwnc:clientA", "args", buildCreateClientArgs("nodeB"))

\* createClients: await nodeA.createTendermintClient(args2..)
CwncClientA == CwncCreateClient("cwnc:clientA", "cwnc:init", "nodeA", "clientIdA")

\* await nodeA.connOpenInit(clientIdA, clientIdB)
CwncInit ==
    /\ cpc = "cwnc:init"
    /\ LET arg == <<cLoc.clientIdA, cLoc.clientIdB>>
           connId == ConnectionId(nextSeq["nodeA"].connection)
       IN  \/ Rejected("nodeA", "connOpenInit", arg)
           \/ /\ txs' = Append(txs, Tx("nodeA", "connOpenInit", TRUE, connId, arg))
              /\ nextSeq' = [nextSeq EXCEPT !["nodeA"].connection = @ + 1]
              /\ connection' = [connection EXCEPT !["nodeA"] =
                     ConnectionEnd(connId, cLoc.clientIdA, cLoc.clientIdB,
                                   CONNECTION_STATE_INIT)]
              /\ cLoc' = [cLoc EXCEPT !.connIdA = connId]
              /\ cpc' = "cwnc:proofTry"
              /\ UNCHANGED <<tip, clientLatest, sentPackets, received, writtenAcks, acked>>
              /\ UNCHANGED <<chainId, clientState, consensusState, header, channelEnd>>
              /\ UNCHANGED <<cIn, link, relayVars, iterVars>>

\* const proof = await prepareConnectionHandshake(nodeA, nodeB, ..., connIdA)
CwncProofTry ==
    CwncQuery("cwnc:proofTry", "cwnc:try", "proof",
              prepareConnectionHandshake("nodeA", "nodeB", cLoc.clientIdA,
                                         cLoc.clientIdB, cLoc.connIdA))

\* await nodeB.connOpenTry(clientIdB, proof)
CwncTry ==
    /\ cpc = "cwnc:try"
    /\ LET arg == <<cLoc.clientIdB, cLoc.proof>>
           connId == ConnectionId(nextSeq["nodeB"].connection)
       IN  \/ Rejected("nodeB", "connOpenTry", arg)
           \/ /\ txs' = Append(txs, Tx("nodeB", "connOpenTry", TRUE, connId, arg))
              /\ nextSeq' = [nextSeq EXCEPT !["nodeB"].connection = @ + 1]
              /\ connection' = [connection EXCEPT !["nodeB"] =
                     ConnectionEnd(connId, cLoc.clientIdB, cLoc.proof.clientId,
                                   CONNECTION_STATE_TRYOPEN)]
              /\ cLoc' = [cLoc EXCEPT !.connIdB = connId]
              /\ cpc' = "cwnc:proofAck"
              /\ UNCHANGED <<tip, clientLatest, sentPackets, received, writtenAcks, acked>>
              /\ UNCHANGED <<chainId, clientState, consensusState, header, channelEnd>>
              /\ UNCHANGED <<cIn, link, relayVars, iterVars>>

\* const proofAck = await prepareConnectionHandshake(nodeB, nodeA, ..., connIdB)
CwncProofAck ==
    CwncQuery("cwnc:proofAck", "cwnc:ack", "proof",
              prepareConnectionHandshake("nodeB", "nodeA", cLoc.clientIdB,
                                         cLoc.clientIdA, cLoc.connIdB))

\* a connOpenAck or connOpenConfirm accepted by node: its connection end opens
CwncOpen(from, to, node, msg, arg) ==
    /\ cpc = from
    /\ \/ Rejected(node, msg, arg)
       \/ /\ txs' = Append(txs, Tx(node, msg, TRUE, Undefined, arg))
          /\ connection' = [connection EXCEPT ![node] =
                 Some([@[1] EXCEPT !.state = CONNECTION_STATE_OPEN])]
          /\ cpc' = to
          /\ UNCHANGED <<tip, clientLatest, sentPackets, received, writtenAcks, acked>>
          /\ UNCHANGED <<chainId, clientState, consensusState, header, channelEnd, nextSeq>>
          /\ UNCHANGED <<cIn, cLoc, link, relayVars, iterVars>>

\* await nodeA.connOpenAck(connIdA, proofAck)
CwncAck ==
    CwncOpen("cwnc:ack", "cwnc:proofConfirm", "nodeA", "connOpenAck",
             <<cLoc.connIdA, cLoc.proof>>)

\* const proofConfirm = await prepareConnectionHandshake(nodeA, nodeB, ..., connIdA)
CwncProofConfirm ==
    CwncQuery("cwnc:proofConfirm", "cwnc:confirm", "proof",
              prepareConnectionHandshake("nodeA", "nodeB", cLoc.clientIdA,
                                         cLoc.clientIdB, cLoc.connIdA))

\* await nodeB.connOpenConfirm(proofConfirm)
CwncConfirm ==
    CwncOpen("cwnc:confirm", "cwnc:link", "nodeB", "connOpenConfirm", <<cLoc.proof>>)

\* the Link with the connection ids of the two sides exchanged
newConnectionsLinkSwapped(loc) ==
    NewLink(Endpoint("nodeA", loc.clientIdA, loc.connIdB),
            Endpoint("nodeB", loc.clientIdB, loc.connIdA))

\* lines 247-249: endA, endB and the Link of them
newConnectionsLink(loc) ==
    NewLink(Endpoint("nodeA", loc.clientIdA, loc.connIdA),
            Endpoint("nodeB", loc.clientIdB, loc.connIdB))

\* return new Link(endA, endB, logger)
CwncReturn ==
    /\ cpc = "cwnc:link"
    /\ link' = newConnectionsLink(cLoc)
    /\ cpc' = "returned"
    /\ UNCHANGED <<chainVars, ibcVars, cIn, cLoc, relayVars, iterVars>>

InitNew ==
    /\ tip = [n \in Nodes |-> 1]
    /\ clientLatest = [n \in Nodes |-> Some(1)]
    /\ QuietChains
    /\ chainId = [n \in Nodes |-> ChainIdOf(n)]
    /\ clientState = [n \in Nodes |-> [chainId |-> "none"]]
    /\ consensusState = [n \in Nodes |-> [h \in Heights |->
           [nextValidatorsHash |-> "none", root |-> Undefined, timestamp |-> Undefined]]]
    /\ header = TheHeaders
    /\ connection = [n \in Nodes |-> Undefined]
    /\ channelEnd = [n \in Nodes |-> Undefined]
    /\ nextSeq \in [Nodes -> [client : 0..MaxSeq, connection : 0..MaxSeq, channel : {0}]]
    /\ cpc = "idle"
    /\ cIn = <<>>
    /\ cLoc = <<>>
    /\ link = NoLink
    /\ InitRelayVars
    /\ InitIterVars

NextNew ==
    \/ CallCreateWithNewConnections
    \/ CwncArgsA
    \/ CwncClientB
    \/ CwncArgsB
    \/ CwncClientA
    \/ CwncInit
    \/ CwncProofTry
    \/ CwncTry
    \/ CwncProofAck
    \/ CwncAck
    \/ CwncProofConfirm
    \/ CwncConfirm
    \/ CwncReturn

SpecNew == InitNew /\ [][NextNew]_vars

(***************************************************************************)
(* Link.createChannel (link.ts 342-417), one action per await.              *)
(***************************************************************************)
\* State of codec/ibc/core/channel/v1/channel: the states before STATE_OPEN
STATE_INIT == 1
STATE_TRYOPEN == 2

Ports == {"transfer", "oracle"}
Orderings == {"ORDER_UNORDERED", "ORDER_ORDERED"}
Versions == {"ics20-1"}

\* prepareChannelHandshake(src, dest, clientIdDest, portId, channelId): the
\* proof of src's channel end, queried at a height dest knows
prepareChannelHandshake(src, dest, clientIdDest, portId, channelId) ==
    [src |-> src, clientId |-> clientIdDest, portId |-> portId,
     channelId |-> channelId, known |-> clientLatest[dest]]

\* the channel end a chain stores at each step of the handshake
ChannelEnd(portId, channelId, counterparty, ordering, connectionId, version, state) ==
    Some([portId |-> portId, channelId |-> channelId, counterparty |-> counterparty,
          ordering |-> ordering, connectionId |-> connectionId,
          version |-> version, state |-> state])

\* the locals of createChannel
NoChannelLocals ==
    [ends |-> Undefined, channelIdSrc |-> Undefined, channelIdDest |-> Undefined,
     proof |-> Undefined, result |-> Undefined]

CallCreateChannel(sender, srcPort, destPort, ordering, version) ==
    /\ cpc = "idle"
    /\ cIn' = [sender |-> sender, srcPort |-> srcPort, destPort |-> destPort,
               ordering |-> ordering, version |-> version]
    /\ cLoc' = [NoChannelLocals EXCEPT !.ends = getEnds(sender)]
    /\ cpc' = "cc:init"
    /\ UNCHANGED <<chainVars, ibcVars, link, relayVars, iterVars>>

\* a step of createChannel that awaits prepareChannelHandshake
CcQuery(from, to, proof) ==
    /\ cpc = from
    /\ \E ok \in BOOLEAN :
        IF ok THEN /\ cpc' = to
                   /\ cLoc' = [cLoc EXCEPT !.proof = proof]
              ELSE /\ cpc' = "error"
                   /\ UNCHANGED cLoc
    /\ UNCHANGED <<chainVars, ibcVars, cIn, link, relayVars, iterVars>>

\* what a step of createChannel leaves alone besides the channel ends
CcFrame ==
    /\ UNCHANGED <<tip, clientLatest, sentPackets, received, writtenAcks, acked>>
    /\ UNCHANGED <<chainId, clientState, consensusState, header, connection>>
    /\ UNCHANGED <<cIn, link, relayVars, iterVars>>

\* await src.client.channelOpenInit(srcPort, destPort, ordering, src.connectionID, version)
CcInit ==
    /\ cpc = "cc:init"
    /\ LET src == cLoc.ends.src
           arg == <<cIn.srcPort, cIn.destPort, cIn.ordering, src.connectionID, cIn.version>>
           channelId == ChannelId(nextSeq[src.node].channel)
       IN  \/ Rejected(src.node, "channelOpenInit", arg)
           \/ /\ txs' = Append(txs, Tx(src.node, "channelOpenInit", TRUE, channelId, arg))
              /\ nextSeq' = [nextSeq EXCEPT ![src.node].channel = @ + 1]
              /\ channelEnd' = [channelEnd EXCEPT ![src.node] =
                     ChannelEnd(cIn.srcPort, channelId,
                                [portId |-> cIn.destPort, channelId |-> Undefined],
                                cIn.ordering, src.connectionID, cIn.version, STATE_INIT)]
              /\ cLoc' = [cLoc EXCEPT !.channelIdSrc = channelId]
              /\ cpc' = "cc:proofTry"
              /\ CcFrame

\* const proof = await prepareChannelHandshake(src.client, dest.client, dest.clientID, srcPort, channelIdSrc)
CcProofTry ==
    CcQuery("cc:proofTry", "cc:try",
            prepareChannelHandshake(cLoc.ends.src.node, cLoc.ends.dest.node,
                                    cLoc.ends.dest.clientID, cIn.srcPort, cLoc.channelIdSrc))

\* await dest.client.channelOpenTry(destPort, {srcPort, channelIdSrc}, ordering,
\*                                  src.connectionID, version, version, proof)
CcTry ==
    /\ cpc = "cc:try"
    /\ LET src == cLoc.ends.src
           dest == cLoc.ends.dest
           remote == [portId |-> cIn.srcPort, channelId |-> Some(cLoc.channelIdSrc)]
           arg == <<cIn.destPort, remote, cIn.ordering, src.connectionID,
                    cIn.version, cIn.version, cLoc.proof>>
           channelId == ChannelId(nextSeq[dest.node].channel)
       IN  \/ Rejected(dest.node, "channelOpenTry", arg)
           \/ /\ txs' = Append(txs, Tx(dest.node, "channelOpenTry", TRUE, channelId, arg))
              /\ nextSeq' = [nextSeq EXCEPT ![dest.node].channel = @ + 1]
              /\ channelEnd' = [channelEnd EXCEPT ![dest.node] =
                     ChannelEnd(cIn.destPort, channelId, remote, cIn.ordering,
                                src.connectionID, cIn.version, STATE_TRYOPEN)]
              /\ cLoc' = [cLoc EXCEPT !.channelIdDest = channelId]
              /\ cpc' = "cc:proofAck"
              /\ CcFrame

\* const proofAck = await prepareChannelHandshake(dest.client, src.client, src.clientID, destPort, channelIdDest)
CcProofAck ==
    CcQuery("cc:proofAck", "cc:ack",
            prepareChannelHandshake(cLoc.ends.dest.node, cLoc.ends.src.node,
                                    cLoc.ends.src.clientID, cIn.destPort, cLoc.channelIdDest))

\* await src.client.channelOpenAck(srcPort, channelIdSrc, channelIdDest, version, proofAck)
CcAck ==
    /\ cpc = "cc:ack"
    /\ LET src == cLoc.ends.src
           arg == <<cIn.srcPort, cLoc.channelIdSrc, cLoc.channelIdDest, cIn.version, cLoc.proof>>
       IN  \/ Rejected(src.node, "channelOpenAck", arg)
           \/ /\ txs' = Append(txs, Tx(src.node, "channelOpenAck", TRUE, Undefined, arg))
              /\ channelEnd' = [channelEnd EXCEPT ![src.node] =
                     Some([@[1] EXCEPT !.state = STATE_OPEN,
                                       !.counterparty.channelId = Some(cLoc.channelIdDest)])]
              /\ cpc' = "cc:proofConfirm"
              /\ UNCHANGED <<nextSeq, cLoc>>
              /\ CcFrame

\* const proofConfirm = await prepareChannelHandshake(src.client, dest.client, dest.clientID, srcPort, channelIdSrc)
CcProofConfirm ==
    CcQuery("cc:proofConfirm", "cc:confirm",
            prepareChannelHandshake(cLoc.ends.src.node, cLoc.ends.dest.node,
                                    cLoc.ends.dest.clientID, cIn.srcPort, cLoc.channelIdSrc))

\* await dest.client.channelOpenConfirm(destPort, channelIdDest, proofConfirm);
\* return {src: {srcPort, channelIdSrc}, dest: {destPort, channelIdDest}}
CcConfirm ==
    /\ cpc = "cc:confirm"
    /\ LET dest == cLoc.ends.dest
           arg == <<cIn.destPort, cLoc.channelIdDest, cLoc.proof>>
       IN  \/ Rejected(dest.node, "channelOpenConfirm", arg)
           \/ /\ txs' = Append(txs, Tx(dest.node, "channelOpenConfirm", TRUE, Undefined, arg))
              /\ channelEnd' = [channelEnd EXCEPT ![dest.node] =
                     Some([@[1] EXCEPT !.state = STATE_OPEN])]
              /\ cLoc' = [cLoc EXCEPT !.result = Some(
                     [src |-> [portId |-> cIn.srcPort, channelId |-> cLoc.channelIdSrc],
                      dest |-> [portId |-> cIn.destPort, channelId |-> cLoc.channelIdDest]])]
              /\ cpc' = "returned"
              /\ UNCHANGED nextSeq
              /\ CcFrame

\* a Link over an open connection pair, whose ids the two chains minted
InitChannel ==
    /\ tip = [n \in Nodes |-> 1]
    /\ clientLatest = [n \in Nodes |-> Some(1)]
    /\ QuietChains
    /\ chainId = [n \in Nodes |-> ChainIdOf(n)]
    /\ clientState = [n \in Nodes |-> [chainId |-> ChainIdOf(otherNode(n))]]
    /\ consensusState = [n \in Nodes |-> MatchingConsensus(n)]
    /\ header = TheHeaders
    /\ \E connA \in ConnectionIds, connB \in ConnectionIds :
        /\ connection = [n \in Nodes |->
               ConnectionEnd(IF n = "nodeA" THEN connA ELSE connB, ClientId(0),
                             ClientId(0), CONNECTION_STATE_OPEN)]
        /\ link = NewLink(Endpoint("nodeA", ClientId(0), connA),
                          Endpoint("nodeB", ClientId(0), connB))
    /\ channelEnd = [n \in Nodes |-> Undefined]
    /\ nextSeq \in [Nodes -> [client : {1}, connection : {2}, channel : 0..MaxSeq]]
    /\ cpc = "idle"
    /\ cIn = <<>>
    /\ cLoc = <<>>
    /\ InitRelayVars
    /\ InitIterVars

NextChannel ==
    \/ \E sender \in Sides, srcPort \in Ports, destPort \in Ports,
          ordering \in Orderings, version \in Versions :
           CallCreateChannel(sender, srcPort, destPort, ordering, version)
    \/ CcInit
    \/ CcProofTry
    \/ CcTry
    \/ CcProofAck
    \/ CcAck
    \/ CcProofConfirm
    \/ CcConfirm

SpecChannel == InitChannel /\ [][NextChannel]_vars

(***************************************************************************)
(* The relay loop of one caller over a link between the two chains.         *)
(***************************************************************************)
TheLink ==
    NewLink(Endpoint("nodeA", ClientId(0), ConnectionId(0)),
            Endpoint("nodeB", ClientId(0), ConnectionId(0)))

Init ==
    /\ tip = [n \in Nodes |-> 1]
    /\ clientLatest = [n \in Nodes |-> Some(1)]
    /\ QuietChains
    /\ link = TheLink
    /\ EstablishedSetup
    /\ InitRelayVars
    /\ InitIterVars

Next ==
    \/ \E n \in Nodes : AdvanceBlock(n)
    \/ \E n \in Nodes : SendPacket(n)
    \/ \E s \in Sides : UpdateClientCall(s)
    \/ StartIteration
    \/ \E s \in Sides : FetchPackets(s)
    \/ \E s \in Sides : UcState(s)
    \/ \E s \in Sides : UcHeader(s)
    \/ \E s \in Sides : UcWait(s)
    \/ \E s \in Sides : UcUpdate(s)
    \/ \E s \in Sides : \E x \in rItems[s] : RelayProof(s, x)
    \/ \E s \in Sides : RelayBroadcast(s)
    \/ PacketsRelayed
    \/ \E s \in Sides : FetchAcks(s)
    \/ AcksRelayed
    \/ IterationReturned
    \/ IterationFails

Spec == Init /\ [][Next]_vars

(***************************************************************************)
(* Direct calls of updateClientToHeight(source, minHeight).                 *)
(***************************************************************************)
CallUpdateClientToHeight(s, minHeight) ==
    /\ \A d \in Sides : rpc[d] = "idle"
    /\ rpc' = [rpc EXCEPT ![s] = "ucState"]
    /\ rkind' = [rkind EXCEPT ![s] = "direct"]
    /\ rMin' = [rMin EXCEPT ![s] = minHeight]
    /\ UNCHANGED <<chainVars, setupVars, link, iterVars>>
    /\ UNCHANGED <<rItems, rHeader, rProofs, rResult, waitFrom, rTrace>>

\* a client never knows its chain beyond the chain's tip
InitUpdate ==
    /\ tip \in [Nodes -> 1..MaxHeight]
    /\ clientLatest \in [Nodes -> {Undefined} \cup {Some(h) : h \in 0..MaxHeight}]
    /\ \A n \in Nodes : revisionHeightOrZero(clientLatest[n]) <= tip[otherNode(n)]
    /\ QuietChains
    /\ link = TheLink
    /\ EstablishedSetup
    /\ InitRelayVars
    /\ InitIterVars

NextUpdate ==
    \/ \E n \in Nodes : AdvanceBlock(n)
    \/ \E s \in Sides : \E minHeight \in 0..(MaxHeight + 1) : CallUpdateClientToHeight(s, minHeight)
    \/ \E s \in Sides : UcState(s)
    \/ \E s \in Sides : UcHeader(s)
    \/ \E s \in Sides : UcWait(s)
    \/ \E s \in Sides : UcUpdate(s)

SpecUpdate == InitUpdate /\ [][NextUpdate]_vars

(***************************************************************************)
(* Link.updateClientIfStale (link.ts 284-311), one action per await.        *)
(* Times are whole seconds.                                                 *)
(***************************************************************************)
\* the locals of updateClientIfStale; result is "pending", "null" or "height"
NoStaleLocals ==
    [knownHeader |-> Undefined, currentHeader |-> Undefined,
     result |-> "pending", height |-> Undefined]

CallUpdateClientIfStale(sender, maxAge) ==
    /\ cpc = "idle"
    /\ cIn' = [sender |-> sender, maxAge |-> maxAge]
    /\ cLoc' = NoStaleLocals
    /\ cpc' = "stale:known"
    /\ UNCHANGED <<chainVars, ibcVars, link, relayVars, iterVars>>

\* const knownHeader = await dest.client.query.ibc.client.consensusStateTm(dest.clientID):
\* the consensus state of the client's latest height
StaleKnown ==
    /\ cpc = "stale:known"
    /\ \E ok \in BOOLEAN :
        LET dest == getEnds(cIn.sender).dest.node
        IN  IF ok
            THEN /\ cLoc' = [cLoc EXCEPT !.knownHeader =
                               Some(consensusState[dest][clientLatest[dest][1]])]
                 /\ cpc' = "stale:current"
            ELSE /\ cpc' = "error"
                 /\ UNCHANGED cLoc
    /\ UNCHANGED <<chainVars, ibcVars, cIn, link, relayVars, iterVars>>

\* knownHeader.timestamp?.seconds?.toNumber()
knownSecondsOf(knownHeader) ==
    IF knownHeader.timestamp = Undefined THEN Undefined
    ELSE Some(knownHeader.timestamp[1].seconds)

\* if (knownSeconds): neither undefined nor 0
truthy(knownSeconds) == knownSeconds # Undefined /\ knownSeconds[1] # 0

\* lines 299-306: the condition under which null is returned at once
noUpdateNeeded(knownSeconds, curSeconds, maxAge) ==
    truthy(knownSeconds) /\ curSeconds - knownSeconds[1] < maxAge

\* const currentHeader = await src.client.latestHeader(), and the decision
StaleCurrent ==
    /\ cpc = "stale:current"
    /\ \E ok \in BOOLEAN :
        LET src == getEnds(cIn.sender).src.node
            currentHeader == header[src][tip[src]]
            knownSeconds == knownSecondsOf(cLoc.knownHeader[1])
        IN  IF ~ok
            THEN /\ cpc' = "error"
                 /\ UNCHANGED cLoc
            ELSE IF noUpdateNeeded(knownSeconds, currentHeader.time, cIn.maxAge)
            THEN /\ cLoc' = [cLoc EXCEPT !.currentHeader = Some(currentHeader),
                                         !.result = "null"]
                 /\ cpc' = "returned"
            ELSE /\ cLoc' = [cLoc EXCEPT !.currentHeader = Some(currentHeader)]
                 /\ cpc' = "stale:update"
    /\ UNCHANGED <<chainVars, ibcVars, cIn, link, relayVars, iterVars>>

\* return this.updateClient(sender)
StaleUpdate ==
    /\ cpc = "stale:update"
    /\ LET ends == getEnds(cIn.sender)
           height == tip[ends.src.node]
       IN  /\ txs' = Broadcast(ends.dest.node, "updateClient")
           /\ \E ok \in BOOLEAN :
               IF ok
               THEN /\ clientLatest' = doUpdateClient(ends.dest, ends.src)
                    /\ consensusState' = [consensusState EXCEPT ![ends.dest.node][height] =
                           ConsensusOf(header[ends.src.node][height])]
                    /\ cLoc' = [cLoc EXCEPT !.result = "height", !.height = Some(height)]
                    /\ cpc' = "returned"
               ELSE /\ cpc' = "error"
                    /\ UNCHANGED <<clientLatest, consensusState, cLoc>>
    /\ UNCHANGED <<tip, sentPackets, received, writtenAcks, acked>>
    /\ UNCHANGED <<chainId, clientState, header, connection, channelEnd, nextSeq>>
    /\ UNCHANGED <<cIn, link, relayVars, iterVars>>

\* the time of the first block of a chain is 0 or 1, and a block takes a second
GenesisTimes == {0, 1}
\* the ages handed to updateClientIfStale; the last exceeds every difference
\* of two header times
MaxAges == 0..(MaxHeight + 2)

\* the client of each chain holds the consensus state of a header of the
\* other chain, with or without its timestamp
InitStale ==
    /\ tip \in [Nodes -> 1..MaxHeight]
    /\ clientLatest \in [Nodes -> {Some(h) : h \in Heights}]
    /\ \A n \in Nodes : clientLatest[n][1] <= tip[otherNode(n)]
    /\ QuietChains
    /\ link = TheLink
    /\ chainId = [n \in Nodes |-> ChainIdOf(n)]
    /\ clientState = [n \in Nodes |-> [chainId |-> ChainIdOf(otherNode(n))]]
    /\ \E genesis \in [Nodes -> GenesisTimes] :
        header = [n \in Nodes |-> [h \in Heights |->
                     [HeaderOf(n, h) EXCEPT !.time = genesis[n] + h - 1]]]
    /\ \E stamped \in [Nodes -> BOOLEAN] :
        consensusState = [n \in Nodes |-> [h \in Heights |->
            IF stamped[n] THEN ConsensusOf(header[otherNode(n)][h])
            ELSE [ConsensusOf(header[otherNode(n)][h]) EXCEPT !.timestamp = Undefined]]]
    /\ connection = [n \in Nodes |->
           ConnectionEnd(ConnectionId(0), ClientId(0), ClientId(0), CONNECTION_STATE_OPEN)]
    /\ channelEnd = [n \in Nodes |-> Undefined]
    /\ nextSeq = [n \in Nodes |-> [client |-> 1, connection |-> 1, channel |-> 0]]
    /\ cpc = "idle"
    /\ cIn = <<>>
    /\ cLoc = <<>>
    /\ InitRelayVars
    /\ InitIterVars

NextStale ==
    \/ \E n \in Nodes : AdvanceBlock(n)
    \/ \E sender \in Sides, maxAge \in MaxAges : CallUpdateClientIfStale(sender, maxAge)
    \/ StaleKnown
    \/ StaleCurrent
    \/ StaleUpdate

SpecStale == InitStale /\ [][NextStale]_vars

(***************************************************************************)
(* Properties of the constructors.                                          *)
(***************************************************************************)
\* what createWithExistingConnections requires of the two chains, stated on
\* the chain state for the connection ids the call was given
ExistingConnectionsFit ==
    LET connectionA == queryConnection("nodeA", cIn.connA)
        connectionB == queryConnection("nodeB", cIn.connB)
    IN  /\ connectionA # Undefined
        /\ connectionB # Undefined
        /\ connectionA[1].counterparty # Undefined
        /\ connectionB[1].counterparty # Undefined
        /\ connectionA[1].state = CONNECTION_STATE_OPEN
        /\ connectionB[1].state = CONNECTION_STATE_OPEN
        /\ connectionA[1].clientId = connectionB[1].counterparty[1].clientId
        /\ connectionB[1].clientId = connectionA[1].counterparty[1].clientId
        /\ chainId["nodeA"] = clientState["nodeB"].chainId
        /\ chainId["nodeB"] = clientState["nodeA"].chainId

\* C1: when createWithExistingConnections returns a Link, both connections
\* exist, have a counterparty and are OPEN, each client id equals the other
\* connection's counterparty client id, and each chain id equals the chain id
\* in the other side's client state; when one of these fails, the call fails
\* and no Link is returned.
C1_ExistingConnectionsChecked ==
    /\ cpc = "returned" => (link # NoLink /\ ExistingConnectionsFit)
    /\ link # NoLink => cpc = "returned"
    /\ (cpc \in {"returned", "error"} /\ ~ExistingConnectionsFit)
           => (cpc = "error" /\ link = NoLink)

\* a Link was returned for connection-0 on both chains
C1_Witness ==
    /\ cpc = "returned"
    /\ link # NoLink
    /\ link.endA.connectionID = ConnectionId(0)
    /\ link.endB.connectionID = ConnectionId(0)

\* the broadcasts of createWithNewConnections: the chain and the message
NewConnectionsBroadcasts ==
    << <<"nodeB", "createTendermintClient">>, <<"nodeA", "createTendermintClient">>,
       <<"nodeA", "connOpenInit">>, <<"nodeB", "connOpenTry">>,
       <<"nodeA", "connOpenAck">>, <<"nodeB", "connOpenConfirm">> >>

\* C2: createWithNewConnections broadcasts exactly six transactions, each
\* once and in this order: CreateClient on B (tracking A), CreateClient on A
\* (tracking B), ConnOpenInit on A, ConnOpenTry on B, ConnOpenAck on A,
\* ConnOpenConfirm on B; a step starts only after the previous one succeeded;
\* the returned Link holds the connection id minted by ConnOpenInit for side
\* A and the one minted by ConnOpenTry for side B.
C2_SixTransactionsInOrder ==
    /\ Len(txs) <= Len(NewConnectionsBroadcasts)
    /\ \A i \in 1..Len(txs) :
        /\ <<txs[i].node, txs[i].msg>> = NewConnectionsBroadcasts[i]
        /\ i < Len(txs) => txs[i].ok
    /\ Len(txs) >= 1 => txs[1].arg.clientState.chainId = chainId["nodeA"]
    /\ Len(txs) >= 2 => txs[2].arg.clientState.chainId = chainId["nodeB"]
    /\ link # NoLink => cpc = "returned"
    /\ cpc = "returned" =>
        /\ Len(txs) = Len(NewConnectionsBroadcasts)
        /\ \A i \in 1..Len(txs) : txs[i].ok
        /\ link.endA.node = "nodeA"
        /\ link.endB.node = "nodeB"
        /\ link.endA.connectionID = txs[3].minted
        /\ link.endB.connectionID = txs[4].minted

\* the call returned a Link whose two connection ids differ, and both
\* connection ends are open
C2_Witness ==
    /\ cpc = "returned"
    /\ Len(txs) = 6
    /\ link.endA.connectionID # link.endB.connectionID
    /\ \A n \in Nodes : connection[n][1].state = CONNECTION_STATE_OPEN

\* the chain on a side of the link
NodeOfSide(side) == IF side = "A" THEN link.endA.node ELSE link.endB.node

\* the broadcasts of createChannel(sender, ..): the chain and the message
ChannelBroadcasts(sender) ==
    << <<NodeOfSide(sender), "channelOpenInit">>,
       <<NodeOfSide(otherSide(sender)), "channelOpenTry">>,
       <<NodeOfSide(sender), "channelOpenAck">>,
       <<NodeOfSide(otherSide(sender)), "channelOpenConfirm">> >>

\* C3: createChannel(sender, ..) broadcasts exactly four transactions, in the
\* order channelOpenInit on the sender side, channelOpenTry on the other
\* side, channelOpenAck on the sender side, channelOpenConfirm on the other
\* side, each only after the previous one succeeded, and nothing else.
C3_FourChannelTransactionsInOrder ==
    /\ cpc = "idle" => txs = <<>>
    /\ cpc # "idle" =>
        /\ Len(txs) <= 4
        /\ \A i \in 1..Len(txs) :
            /\ <<txs[i].node, txs[i].msg>> = ChannelBroadcasts(cIn.sender)[i]
            /\ i < Len(txs) => txs[i].ok
    /\ cpc = "returned" =>
        /\ Len(txs) = 4
        /\ \A i \in 1..Len(txs) : txs[i].ok

\* createChannel with sender B returned, and both channel ends are open
C3_Witness ==
    /\ cpc = "returned"
    /\ cIn.sender = "B"
    /\ Len(txs) = 4
    /\ \A n \in Nodes : channelEnd[n][1].state = STATE_OPEN
    /\ cLoc.result[1].src.channelId = channelEnd["nodeB"][1].channelId

(***************************************************************************)
(* Properties of the relay iteration.                                       *)
(***************************************************************************)
srcNode(s) == getEnds(s).src.node
destNode(s) == getEnds(s).dest.node

\* the destination of source side s reports packet p as received
ReportedReceived(s, p) ==
    unreceivedPackets(destNode(s), p.destinationPort, p.destinationChannel, {p.sequence}) = {}

\* C4: when an iteration has returned, every packet that was pending at its
\* start (sent from a side since the cursor's packet height of that side, and
\* unreceived: no packet is sent while an iteration runs) is reported as
\* received by the destination chain.
C4_PendingPacketsReceived ==
    ipc = "done" =>
        \A s \in Sides :
            \A x \in querySentPackets(srcNode(s), relayFrom[packetField(s)]) :
                ReportedReceived(s, x.packet)

\* a returned iteration that found two packets pending on one side
C4_Witness ==
    /\ ipc = "done"
    /\ \E s \in Sides : Cardinality(pendingAtStart[s]) = 2
    /\ \E s \in Sides : pendingAtStart[s] # {} /\ relayFrom[packetField(s)] # Undefined

\* the height updateClientToHeight(s, h) is to reach is known, and returned
UpdateReached(s) ==
    /\ revisionHeightOrZero(clientLatest[destNode(s)]) >= rMin[s]
    /\ revisionHeightOrZero(rHeader[s]) >= rMin[s]

\* C5: when updateClientToHeight(s, h) has returned, the destination's client
\* knows the source at a height >= h and the returned height is >= h.
C5_UpdateClientToHeightReaches ==
    \A s \in Sides : (rkind[s] = "direct" /\ rpc[s] = "ucReturned") => UpdateReached(s)

\* the events of a relay that are broadcasts
BroadcastEvents(s) ==
    {i \in 1..Len(rTrace[s]) : rTrace[s][i].ev \in {"updated", "broadcast"}}

\* C6: relayPackets(source, []) broadcasts nothing on either chain and returns
\* an empty list of acks.
C6_EmptyRelayBroadcastsNothing ==
    \A s \in Sides :
        (rkind[s] = "packets" /\ rItems[s] = {}) =>
            /\ BroadcastEvents(s) = {}
            /\ rpc[s] = "done" => rResult[s] = {}

\* nothing is pending in either direction: every packet sent is received and
\* acknowledged, and the running iteration found nothing to relay
NothingPending ==
    /\ \A n \in Nodes : \A x \in sentPackets[n] :
           x.packet \in received[otherNode(n)] /\ x.packet \in acked[n]
    /\ \A s \in Sides : pendingAtStart[s] = {} /\ rItems[s] = {}

\* C7: a second iteration over the same cursor, with nothing new on either
\* chain, broadcasts nothing and leaves the chains as they are.
C7_SecondIterationBroadcastsNothing ==
    [][(iterations = 2 /\ ipc \in {"getPackets", "relayPackets", "getAcks", "relayAcks"}
            /\ NothingPending /\ tip' = tip)
        => (txs' = txs /\ chainVars' = chainVars)]_vars

\* max(previous, highest source height processed), the previous value when
\* nothing was processed
AdvancedField(previous, items) ==
    IF items = {} THEN previous
    ELSE LET top == MathMax({x.height : x \in items})
         IN  Some(IF revisionHeightOrZero(previous) > top
                  THEN revisionHeightOrZero(previous) ELSE top)

\* C8: the cursor a successful iteration returns has each field advanced to
\* max(previous value, highest source height processed in that category).
C8_CursorAdvanced ==
    ipc = "done" =>
        \A s \in Sides :
            /\ returned[Len(returned)][packetField(s)]
                   = AdvancedField(relayFrom[packetField(s)], pendingAtStart[s])
            /\ returned[Len(returned)][ackField(s)]
                   = AdvancedField(relayFrom[ackField(s)], rItems[s])

\* every field of cursor a is >= the field of cursor b
CursorGeq(a, b) ==
    \A f \in CursorFields :
        b[f] = Undefined \/ (a[f] # Undefined /\ a[f][1] >= b[f][1])

\* C9: every field of the cursor an iteration returns is >= the field of the
\* cursor it was given, so no field decreases over iterations threading it.
C9_CursorMonotone ==
    /\ ipc = "done" => CursorGeq(returned[Len(returned)], relayFrom)
    /\ \A i \in 1..(Len(returned) - 1) : CursorGeq(returned[i + 1], returned[i])

\* two iterations have returned, threading a cursor with fields set
C9_Witness ==
    /\ ipc = "done"
    /\ Len(returned) = 2
    /\ relayFrom["packetHeighA"] # Undefined
    /\ relayFrom["packetHeightB"] = Undefined

\* C10: in a relay of one direction the client update completes before any
\* proof is fetched, every proof is fetched before the broadcast, and the
\* broadcast's proof height is the height the update returned, at which
\* every proof was fetched.
C10_UpdateThenProofsThenBroadcast ==
    \A s \in Sides :
        LET t == rTrace[s]
        IN  rkind[s] \in {"packets", "acks"} =>
                /\ \A i \in 1..Len(t) :
                       /\ (t[i].ev \in {"known", "updated"}) = (i = 1)
                       /\ t[i].h = t[1].h
                       /\ t[i].ev = "broadcast" =>
                              /\ i = Len(t)
                              /\ i = Cardinality(rItems[s]) + 2
                /\ \A pr \in rProofs[s] : Len(t) > 0 /\ pr.height = t[1].h
                /\ Len(t) > 0 => t[1].h = rHeader[s]

\* a relay of two packets whose client update ran past the needed height
C10_Witness ==
    \E s \in Sides :
        /\ rkind[s] = "packets"
        /\ rpc[s] = "done"
        /\ Cardinality(rItems[s]) = 2
        /\ rTrace[s][1].ev = "updated"
        /\ rTrace[s][1].h # Some(rMin[s])
        /\ rTrace[s][Len(rTrace[s])].ev = "broadcast"

(***************************************************************************)
(* One-way relay in one iteration.                                          *)
(***************************************************************************)
\* the positions in txs of the transactions msg broadcast by the iteration
TxsOf(msg) == {i \in 1..Len(txs) : txs[i].msg = msg}

\* the first iteration has returned; at its start only side A had pending
\* packets, and nothing else was pending in either direction
OneWayIterationDone ==
    /\ ipc = "done"
    /\ iterations = 1
    /\ pendingAtStart["A"] # {}
    /\ sentPackets[destNode("A")] = {}

\* B's client of A knows a height above the highest pending packet
C11_ClientUpdated ==
    OneWayIterationDone =>
        revisionHeightOrZero(clientLatest[destNode("A")])
            >= MathMax({x.height : x \in pendingAtStart["A"]}) + 1

\* exactly one receivePackets was broadcast: on B, with all the packets
C11_OneReceive ==
    OneWayIterationDone =>
        /\ Cardinality(TxsOf("receivePackets")) = 1
        /\ \A i \in TxsOf("receivePackets") :
            /\ txs[i].node = destNode("A")
            /\ txs[i].packets = {x.packet : x \in pendingAtStart["A"]}

\* exactly one acknowledgePackets was broadcast, after the receive: on A, with
\* the acks of all the packets
C11_OneAck ==
    OneWayIterationDone =>
        /\ Cardinality(TxsOf("acknowledgePackets")) = 1
        /\ \A i \in TxsOf("acknowledgePackets") :
            /\ txs[i].node = srcNode("A")
            /\ txs[i].packets = {x.packet : x \in pendingAtStart["A"]}
            /\ \A j \in TxsOf("receivePackets") : j < i

\* the pending-ack queries run only when no packet relay is running
C11_AckQueryAfterRelays ==
    ipc = "getAcks" => \A s \in Sides : rpc[s] = "idle"

\* C11: when A has n >= 1 pending packets of highest height h and nothing else
\* is pending, one iteration updates B's client of A to at least h + 1,
\* broadcasts exactly one receivePackets (on B, with the n packets) and then
\* exactly one acknowledgePackets (on A, with the n acks of that receive); the
\* pending-ack query starts only after the packet relays of both directions
\* have completed.
C11_OneWayRelay ==
    /\ C11_ClientUpdated
    /\ C11_OneReceive
    /\ C11_OneAck
    /\ C11_AckQueryAfterRelays

(***************************************************************************)
(* Consensus states and headers at construction.                            *)
(***************************************************************************)
\* the consensus state the client on node holds for its latest height agrees
\* with the header of the counterparty chain at that height
ConsensusAgrees(node) ==
    LET h == clientLatest[node][1]
        consensus == consensusState[node][h]
        hdr == header[otherNode(node)][h]
    IN  /\ consensus.nextValidatorsHash = hdr.nextValidatorsHash
        /\ consensus.root # Undefined
        /\ consensus.root[1] = hdr.appHash

\* C12: createWithExistingConnections returns a Link only if, on each side, the
\* consensus state stored for the client's latest height agrees with the
\* counterparty's header at that height (nextValidatorsHash equal, root hash
\* present and equal to appHash); a mismatch on either side makes the call
\* fail, and no Link is exposed.
C12_ConsensusMatchesHeaders ==
    /\ link # NoLink => \A n \in Nodes : ConsensusAgrees(n)
    /\ (cpc \in {"returned", "error"} /\ \E n \in Nodes : ~ConsensusAgrees(n))
           => (cpc = "error" /\ link = NoLink)

\* a Link was returned over two clients whose latest heights differ
C12_Witness ==
    /\ cpc = "returned"
    /\ link # NoLink
    /\ clientLatest["nodeA"] # clientLatest["nodeB"]

\* C13: createWithExistingConnections broadcasts no transaction on either
\* chain, on every path, and leaves the state of both chains unchanged.
C13_ExistingConnectionsOnlyQueries ==
    [][/\ txs' = txs
       /\ txs = <<>>
       /\ UNCHANGED <<tip, clientLatest, sentPackets, received, writtenAcks, acked>>
       /\ UNCHANGED ibcVars]_vars

\* the call failed on a client id that does not match the counterparty's
C13_Witness ==
    /\ cpc = "error"
    /\ txs = <<>>
    /\ connectionsError(queryConnection("nodeA", cIn.connA),
                        queryConnection("nodeB", cIn.connB))
           = "Client ID A does not match counterparty"

(***************************************************************************)
(* A channel handshake that fails.                                          *)
(***************************************************************************)
\* the number of transactions of the call the chains accepted
Accepted == Cardinality({i \in 1..Len(txs) : txs[i].ok})

\* the state of the channel end on the sender chain and on the other chain
\* after the first k steps of the handshake; 0 stands for no channel end
SenderEndAfter(k) == IF k = 0 THEN 0 ELSE IF k <= 2 THEN STATE_INIT ELSE STATE_OPEN
OtherEndAfter(k) == IF k <= 1 THEN 0 ELSE IF k <= 3 THEN STATE_TRYOPEN ELSE STATE_OPEN
EndState(node) == IF channelEnd[node] = Undefined THEN 0 ELSE channelEnd[node][1].state

\* C14: when step k of the channel handshake fails, the error is surfaced, no
\* later step is broadcast, no step is retried, no compensating transaction
\* is issued, and the channel ends stay in the state steps 1..k-1 reached.
C14_PartialHandshakeOnFailure ==
    cpc # "idle" =>
        /\ \A i \in 1..Len(txs) :
            /\ i <= 4
            /\ <<txs[i].node, txs[i].msg>> = ChannelBroadcasts(cIn.sender)[i]
            /\ ~txs[i].ok => (i = Len(txs) /\ cpc = "error")
        /\ cpc = "error" =>
            /\ cLoc.result = Undefined
            /\ EndState(NodeOfSide(cIn.sender)) = SenderEndAfter(Accepted)
            /\ EndState(NodeOfSide(otherSide(cIn.sender))) = OtherEndAfter(Accepted)

\* channelOpenAck was rejected: the sender's end stays in INIT, the other in
\* TRYOPEN
C14_Witness ==
    /\ cpc = "error"
    /\ Len(txs) = 3
    /\ ~txs[3].ok
    /\ EndState(NodeOfSide(cIn.sender)) = STATE_INIT
    /\ EndState(NodeOfSide(otherSide(cIn.sender))) = STATE_TRYOPEN

(***************************************************************************)
(* updateClientToHeight when the height is known already.                   *)
(***************************************************************************)
\* the destination's client knows the source of side s at minHeight or above
KnowsAtLeast(s) ==
    /\ clientLatest[destNode(s)] # Undefined
    /\ clientLatest[destNode(s)][1] >= rMin[s]

\* the call of side s has updated the destination's client
HasUpdated(s) == \E i \in 1..Len(rTrace[s]) : rTrace[s][i].ev = "updated"

\* C15: when the destination's client knows the source at minHeight or above,
\* updateClientToHeight(source, minHeight) returns the known height, without
\* a broadcast and without waiting for a block; a client update is broadcast
\* only when the known height is below minHeight.  (Until the call updates
\* it, the client is the one the call found.)
C15_NoUpdateWhenKnown ==
    \A s \in Sides :
        (rkind[s] = "direct" /\ rpc[s] # "idle" /\ ~HasUpdated(s)) =>
            /\ KnowsAtLeast(s) =>
                /\ rpc[s] \in {"ucState", "ucReturned", "error"}
                /\ \A i \in 1..Len(txs) : txs[i].node # destNode(s)
                /\ rpc[s] = "ucReturned" => rHeader[s] = clientLatest[destNode(s)]
            /\ rpc[s] \in {"ucHeader", "ucWait", "ucUpdate"} => ~KnowsAtLeast(s)
            /\ (\E i \in 1..Len(txs) : txs[i].node = destNode(s)) => ~KnowsAtLeast(s)

\* the call returned the known height, which was exactly minHeight
C15_Witness ==
    \E s \in Sides :
        /\ rkind[s] = "direct"
        /\ rpc[s] = "ucReturned"
        /\ rMin[s] >= 1
        /\ clientLatest[destNode(s)] = Some(rMin[s])
        /\ rTrace[s] = <<[ev |-> "known", h |-> Some(rMin[s])]>>
        /\ txs = <<>>

(***************************************************************************)
(* updateClientIfStale.                                                     *)
(***************************************************************************)
\* the seconds between the known consensus state and the current header the
\* call has read
AgeRead == cLoc.currentHeader[1].time - cLoc.knownHeader[1].timestamp[1].seconds

\* the call has read both headers, and the known one has a timestamp
StaleDecided ==
    /\ cpc \in {"stale:update", "returned"}
    /\ cLoc.knownHeader[1].timestamp # Undefined

\* C16: updateClientIfStale(source, maxAge) updates the destination's client,
\* with one updateClient broadcast and returning the new height, exactly when
\* the known consensus timestamp is older than maxAge seconds relative to the
\* source's current header time; otherwise it returns null without a
\* broadcast, also when the age equals maxAge.
C16_UpdatesExactlyWhenOlder ==
    StaleDecided =>
        /\ cpc = "stale:update" => AgeRead > cIn.maxAge
        /\ cpc = "returned" =>
            /\ cLoc.result = "height" <=> AgeRead > cIn.maxAge
            /\ cLoc.result = "null" => txs = <<>>
            /\ cLoc.result = "height" =>
                /\ Len(txs) = 1
                /\ txs[1] = [node |-> destNode(cIn.sender), msg |-> "updateClient"]
                /\ cLoc.height = clientLatest[destNode(cIn.sender)]

\* C17: with maxAge above every difference of a source header time and a
\* known consensus timestamp, updateClientIfStale returns null and broadcasts
\* nothing, also when the known timestamp is missing or has seconds 0.
C17_LargeMaxAgeReturnsNull ==
    (cpc # "idle" /\ cIn.maxAge = MaxHeight + 2) =>
        /\ cpc # "stale:update"
        /\ txs = <<>>
        /\ cpc = "returned" => cLoc.result = "null"

(***************************************************************************)
(* The height a relay asks the client update for.                           *)
(***************************************************************************)
\* C18: in relayPackets and relayAcks, the neededHeight handed to
\* updateClientToHeight is the highest commit height of the inputs plus one,
\* and so is above the commit height of every input.
C18_NeededHeightAboveInputs ==
    \A s \in Sides :
        (rkind[s] \in {"packets", "acks"} /\ rpc[s] # "idle") =>
            /\ \A x \in rItems[s] : rMin[s] > x.height
            /\ rItems[s] # {} =>
                \E x \in rItems[s] :
                    /\ rMin[s] = x.height + 1
                    /\ \A y \in rItems[s] : y.height <= x.height

\* a relay of two packets committed at different heights
C18_Witness ==
    \E s \in Sides :
        /\ rkind[s] = "packets"
        /\ rpc[s] = "ucReturned"
        /\ \E x \in rItems[s], y \in rItems[s] : x.height < y.height

(***************************************************************************)
(* Side symmetry: the Side-parameterised methods on a Link and on the Link  *)
(* with its ends exchanged, new Link(link.endB, link.endA).                 *)
(***************************************************************************)
\* how far the one packet a chain may have sent has come
PacketStages == {"none", "sent", "received", "acked"}
ThePacketSent == [packet |-> PacketOf(1), height |-> 1]
TheAckWritten == [originalPacket |-> PacketOf(1), height |-> 1]

\* new Link(link.endB, link.endA, ..), while no method of the link runs
SwapLink ==
    /\ \A s \in Sides : rpc[s] = "idle"
    /\ link' = NewLink(link.endB, link.endA)
    /\ UNCHANGED <<chainVars, setupVars, relayVars, iterVars>>

InitSides ==
    /\ tip \in [Nodes -> 1..2]
    /\ clientLatest \in [Nodes -> {Some(1), Some(2)}]
    /\ \A n \in Nodes : clientLatest[n][1] <= tip[otherNode(n)]
    /\ \E stage \in [Nodes -> PacketStages] :
        /\ sentPackets = [n \in Nodes |->
               IF stage[n] = "none" THEN {} ELSE {ThePacketSent}]
        /\ received = [n \in Nodes |->
               IF stage[otherNode(n)] \in {"received", "acked"} THEN {PacketOf(1)} ELSE {}]
        /\ writtenAcks = [n \in Nodes |->
               IF stage[otherNode(n)] \in {"received", "acked"} THEN {TheAckWritten} ELSE {}]
        /\ acked = [n \in Nodes |-> IF stage[n] = "acked" THEN {PacketOf(1)} ELSE {}]
    /\ txs = <<>>
    /\ link = TheLink
    /\ EstablishedSetup
    /\ InitRelayVars
    /\ InitIterVars

NextSides ==
    \/ SwapLink
    \/ \E n \in Nodes : AdvanceBlock(n)
    \/ \E s \in Sides : \E minHeight \in 0..(MaxHeight + 1) : CallUpdateClientToHeight(s, minHeight)
    \/ \E s \in Sides : UcState(s)
    \/ \E s \in Sides : UcHeader(s)
    \/ \E s \in Sides : UcWait(s)
    \/ \E s \in Sides : UcUpdate(s)

SpecSides == InitSides /\ [][NextSides]_vars

\* the endpoint of the link a side names
NamedEnd(side) == IF side = "A" THEN link.endA ELSE link.endB

\* the link is the former one with its ends exchanged, and nothing else changed
Swapped ==
    /\ link'.endA = link.endB
    /\ link'.endB = link.endA
    /\ UNCHANGED <<chainVars, setupVars, relayVars, iterVars>>

AppConnections == {Undefined} \cup {Some(c) : c \in ConnectionIds}
AppConfigs == [srcConnection : AppConnections, destConnection : AppConnections]

\* resolveConnections that misses the case of a srcConnection alone
resolveConnectionsSrcAlone(app) ==
    IF app.srcConnection = Undefined /\ app.destConnection # Undefined
    THEN [threw |-> TRUE, connections |-> Undefined]
    ELSE IF app.srcConnection # Undefined /\ app.destConnection # Undefined
    THEN [threw |-> FALSE,
          connections |-> Some([src |-> app.srcConnection[1],
                                dest |-> app.destConnection[1]])]
    ELSE [threw |-> FALSE, connections |-> Undefined]

\* resolveConnections(app): throws, or returns {src, dest}, or returns null
resolveConnections(app) ==
    IF app.srcConnection = Undefined /\ app.destConnection # Undefined
    THEN [threw |-> TRUE, connections |-> Undefined]
    ELSE IF app.srcConnection # Undefined /\ app.destConnection = Undefined
    THEN [threw |-> TRUE, connections |-> Undefined]
    ELSE IF app.srcConnection # Undefined /\ app.destConnection # Undefined
    THEN [threw |-> FALSE,
          connections |-> Some([src |-> app.srcConnection[1],
                                dest |-> app.destConnection[1]])]
    ELSE [threw |-> FALSE, connections |-> Undefined]

\* the frame of the command when it starts
Ics20Frame(app) ==
    [app |-> app, appFile |-> app, connections |-> Undefined, signers |-> <<>>,
     called |-> "none", channel |-> FALSE, failure |-> "none",
     connA |-> "none", connB |-> "none",
     sender |-> "none", srcPort |-> "none", destPort |-> "none",
     ordering |-> "none", version |-> "none"]

Ics20Chains == UNCHANGED <<chainVars, ibcVars, relayVars, iterVars>>

\* ics20 75-88: the app file is loaded, and the mnemonic is awaited
CallIcs20 ==
    /\ cpc = "idle"
    /\ cIn.called = "none"
    /\ \E found \in BOOLEAN :
        IF found THEN /\ cpc' = "ics20:mnemonic"
                      /\ UNCHANGED cIn
                 ELSE /\ cpc' = "error"
                      /\ cIn' = [cIn EXCEPT !.failure = "app file not found"]
    /\ UNCHANGED <<cLoc, link>>
    /\ Ics20Chains

\* ics20 89-115 and run 144-157: the options, resolveConnections, the registry,
\* and the first signing client is awaited
Ics20Options ==
    /\ cpc = "ics20:mnemonic"
    /\ \E mnemonic \in BOOLEAN, options \in BOOLEAN, registry \in BOOLEAN :
        LET resolved == resolveConnections(cIn.app)
        IN  IF ~mnemonic
            THEN /\ cpc' = "error"
                 /\ cIn' = [cIn EXCEPT !.failure = "no mnemonic"]
            ELSE IF ~options
            THEN /\ cpc' = "error"
                 /\ cIn' = [cIn EXCEPT !.failure = "option missing"]
            ELSE IF resolved.threw
            THEN /\ cpc' = "error"
                 /\ cIn' = [cIn EXCEPT !.failure =
                        "Both srcConnection and destConnection must be present"]
            ELSE IF ~registry
            THEN /\ cpc' = "error"
                 /\ cIn' = [cIn EXCEPT !.failure = "chain not found in registry",
                                       !.connections = resolved.connections]
            ELSE /\ cpc' = "ics20:signA"
                 /\ cIn' = [cIn EXCEPT !.connections = resolved.connections]
    /\ UNCHANGED <<cLoc, link>>
    /\ Ics20Chains

\* run 157: const nodeA = await signingClient(srcChain, ..)
Ics20SignA ==
    /\ cpc = "ics20:signA"
    /\ \E ok \in BOOLEAN :
        IF ok THEN /\ cpc' = "ics20:signB"
                   /\ cIn' = [cIn EXCEPT !.signers = Append(@, "nodeA")]
              ELSE /\ cpc' = "error"
                   /\ UNCHANGED cIn
    /\ UNCHANGED <<cLoc, link>>
    /\ Ics20Chains

\* run 158-159 and resolveLink 123-136: the second signing client, then the
\* constructor is called and runs up to its first await
Ics20SignB ==
    /\ cpc = "ics20:signB"
    /\ \E ok \in BOOLEAN :
        IF ~ok
        THEN /\ cpc' = "error"
             /\ UNCHANGED <<cIn, cLoc>>
        ELSE IF cIn.connections # Undefined
        THEN /\ cpc' = "connections"
             /\ cIn' = [cIn EXCEPT !.signers = Append(@, "nodeB"),
                                   !.called = "createWithExistingConnections",
                                   !.connA = cIn.connections[1].src,
                                   !.connB = cIn.connections[1].dest]
             /\ UNCHANGED cLoc
        ELSE /\ cpc' = "cwnc:argsA"
             /\ cIn' = [cIn EXCEPT !.signers = Append(@, "nodeB"),
                                   !.called = "createWithNewConnections"]
             /\ cLoc' = NoLocals
    /\ UNCHANGED link
    /\ Ics20Chains

\* an app file written with the two connection ids exchanged
savedAppFileSwapped(app, lnk) ==
    [app EXCEPT !.srcConnection = Some(lnk.endB.connectionID),
                !.destConnection = Some(lnk.endA.connectionID)]

\* run 161-173: {...app, srcConnection, destConnection} of the link
savedAppFile(app, lnk) ==
    [app EXCEPT !.srcConnection = Some(lnk.endA.connectionID),
                !.destConnection = Some(lnk.endB.connectionID)]

\* run 161-195: the connections of the link are written to the app file, and
\* createChannel('A', srcPort, destPort, ordering, version) is called; a
\* writeFileSync that throws ends the command
Ics20CreateChannel ==
    /\ cpc = "returned"
    /\ cIn.called # "none"
    /\ ~cIn.channel
    /\ \E written \in BOOLEAN :
        IF ~written
        THEN /\ cpc' = "error"
             /\ cIn' = [cIn EXCEPT !.failure = "app file not written"]
             /\ UNCHANGED cLoc
        ELSE /\ \E srcPort \in Ports, destPort \in Ports :
                cIn' = [cIn EXCEPT !.appFile = savedAppFile(cIn.app, link),
                                   !.channel = TRUE,
                                   !.sender = "A", !.srcPort = srcPort, !.destPort = destPort,
                                   !.ordering = "ORDER_UNORDERED", !.version = "ics20-1"]
             /\ cLoc' = [NoChannelLocals EXCEPT !.ends = getEnds("A")]
             /\ cpc' = "cc:init"
    /\ UNCHANGED link
    /\ Ics20Chains

\* two chains that hold an end of a connection each, open or not, under
\* different ids, and an app file
InitIcs20 ==
    /\ tip = [n \in Nodes |-> 2]
    /\ clientLatest = [n \in Nodes |-> Some(1)]
    /\ QuietChains
    /\ chainId = [n \in Nodes |-> ChainIdOf(n)]
    /\ clientState = [n \in Nodes |-> [chainId |-> ChainIdOf(otherNode(n))]]
    /\ consensusState = [n \in Nodes |-> MatchingConsensus(n)]
    /\ header = TheHeaders
    /\ \E state \in {CONNECTION_STATE_TRYOPEN, CONNECTION_STATE_OPEN} :
        connection = [n \in Nodes |->
            ConnectionEnd(IF n = "nodeA" THEN ConnectionId(0) ELSE ConnectionId(1),
                          ClientId(0), ClientId(0), state)]
    /\ channelEnd = [n \in Nodes |-> Undefined]
    /\ nextSeq = [n \in Nodes |->
           [client |-> 1, connection |-> IF n = "nodeA" THEN 2 ELSE 3, channel |-> 0]]
    /\ cpc = "idle"
    /\ \E app \in AppConfigs : cIn = Ics20Frame(app)
    /\ cLoc = <<>>
    /\ link = NoLink
    /\ InitRelayVars
    /\ InitIterVars

NextIcs20 ==
    \/ CallIcs20
    \/ Ics20Options
    \/ Ics20SignA
    \/ Ics20SignB
    \/ CwecConnections
    \/ CwecClients
    \/ CwecHeaders
    \/ CwncArgsA
    \/ CwncClientB
    \/ CwncArgsB
    \/ CwncClientA
    \/ CwncInit
    \/ CwncProofTry
    \/ CwncTry
    \/ CwncProofAck
    \/ CwncAck
    \/ CwncProofConfirm
    \/ CwncConfirm
    \/ CwncReturn
    \/ Ics20CreateChannel
    \/ CcInit
    \/ CcProofTry
    \/ CcTry
    \/ CcProofAck
    \/ CcAck
    \/ CcProofConfirm
    \/ CcConfirm

SpecIcs20 == InitIcs20 /\ [][NextIcs20]_vars

(***************************************************************************)
(* The connections of the app file decide how the command gets its link.    *)
(***************************************************************************)
SrcSet == cIn.app.srcConnection # Undefined
DestSet == cIn.app.destConnection # Undefined

\* the errors of the command that name a missing or contradictory input
ConfigurationErrors ==
    {"app file not found", "no mnemonic", "option missing",
     "Both srcConnection and destConnection must be present"}

\* the positions of the command before resolveLink has called a constructor
BeforeResolveLink == {"idle", "ics20:mnemonic", "ics20:signA", "ics20:signB"}

\* the messages createWithNewConnections broadcasts
ConnectionMessages == {NewConnectionsBroadcasts[i][2] : i \in 1..Len(NewConnectionsBroadcasts)}

\* C20: with exactly one of srcConnection / destConnection in the app file the
\* command fails with a configuration error, and no signing client is created
\* and no transaction broadcast; with both it calls
\* createWithExistingConnections with srcConnection on node A and
\* destConnection on node B, and creates no client or connection; with neither
\* it calls createWithNewConnections.
C20_ConnectionsOfAppFile ==
    /\ (SrcSet # DestSet) =>
            /\ cIn.signers = <<>>
            /\ txs = <<>>
            /\ cIn.called = "none"
            /\ link = NoLink
            /\ cpc \in {"idle", "ics20:mnemonic", "error"}
            /\ cpc = "error" => cIn.failure \in ConfigurationErrors
    /\ (SrcSet /\ DestSet) =>
            /\ cIn.called \in {"none", "createWithExistingConnections"}
            /\ cIn.called # "none" =>
                    /\ cIn.signers = <<"nodeA", "nodeB">>
                    /\ cIn.connA = cIn.app.srcConnection[1]
                    /\ cIn.connB = cIn.app.destConnection[1]
            /\ \A i \in 1..Len(txs) : txs[i].msg \notin ConnectionMessages
            /\ link # NoLink =>
                    /\ link.endA.node = "nodeA"
                    /\ link.endA.connectionID = cIn.app.srcConnection[1]
                    /\ link.endB.node = "nodeB"
                    /\ link.endB.connectionID = cIn.app.destConnection[1]
    /\ (~SrcSet /\ ~DestSet) =>
            cIn.called \in {"none", "createWithNewConnections"}
    /\ cIn.called = "none" <=> cpc \in BeforeResolveLink \/ (cpc = "error" /\ Len(cIn.signers) < 2)
    /\ cIn.called # "none" => txs = <<>> \/ cIn.signers = <<"nodeA", "nodeB">>
    /\ cIn.signers = <<>> => txs = <<>>

\* the app file holds a srcConnection alone, and the command has failed on it
C20_Witness ==
    /\ SrcSet
    /\ ~DestSet
    /\ cpc = "error"
    /\ cIn.failure = "Both srcConnection and destConnection must be present"
    /\ cIn.signers = <<>>
    /\ txs = <<>>

\* the command adopted the two connections of the app file
C20_Adopted ==
    /\ SrcSet /\ DestSet
    /\ cIn.called = "createWithExistingConnections"
    /\ link # NoLink
    /\ cIn.channel
    /\ cpc = "returned"

\* the command created connections
C20_Created ==
    /\ ~SrcSet /\ ~DestSet
    /\ cIn.called = "createWithNewConnections"
    /\ cIn.channel
    /\ cpc = "returned"
    /\ Len(txs) = 10

(***************************************************************************)
(* getPendingPackets and getPendingAcks (link.ts 453-507) with              *)
(* filterUnreceived (509-551), one action per await, over two channels      *)
(* whose packets carry the same sequence numbers.                           *)
(***************************************************************************)
\* two routes from nodeA to nodeB; their port and channel names run together
\* to the same characters when no delimiter stands between them
Routes ==
    { [sourcePort |-> <<"p">>, sourceChannel |-> <<"q", "c">>,
       destinationPort |-> <<"p", "q">>, destinationChannel |-> <<"c">>],
      [sourcePort |-> <<"p", "q">>, sourceChannel |-> <<"c">>,
       destinationPort |-> <<"p">>, destinationChannel |-> <<"q", "c">>] }

\* bound: the sequence numbers of the packets of a route
MaxRouteSeq == 2

RoutePacket(route, seq) ==
    [sequence |-> seq,
     sourcePort |-> route.sourcePort, sourceChannel |-> route.sourceChannel,
     destinationPort |-> route.destinationPort,
     destinationChannel |-> route.destinationChannel]

RoutePackets == {RoutePacket(r, q) : r \in Routes, q \in 1..MaxRouteSeq}

NoPendingLocals == [all |-> {}, queries |-> {}, result |-> {}]

PendingFrame == UNCHANGED <<ibcVars, link, relayVars, iterVars>>

\* getPendingPackets(source, {minHeight}) or getPendingAcks(source, {minHeight})
CallGetPending(kind, source, minHeight) ==
    /\ cpc = "idle"
    /\ cIn' = [kind |-> kind, source |-> source, minHeight |-> minHeight]
    /\ cLoc' = NoPendingLocals
    /\ cpc' = "pending:all"
    /\ UNCHANGED chainVars
    /\ PendingFrame

\* await src.querySentPackets(opts) / src.queryWrittenAcks(opts); an empty
\* list passes filterUnreceived and the final filter without a query
PendingAll ==
    /\ cpc = "pending:all"
    /\ \E ok \in BOOLEAN :
        LET src == getEnds(cIn.source).src
            all == IF cIn.kind = "packets"
                   THEN querySentPackets(src.node, cIn.minHeight)
                   ELSE queryWrittenAcks(src.node, cIn.minHeight)
        IN  IF ~ok THEN /\ cpc' = "error"
                        /\ UNCHANGED cLoc
            ELSE /\ cLoc' = [cLoc EXCEPT !.all = all]
                 /\ cpc' = IF all = {} THEN "returned" ELSE "pending:unreceived"
    /\ UNCHANGED <<chainVars, cIn>>
    /\ PendingFrame

\* await Promise.all of the unreceived queries, one per key, and the filter
PendingUnreceived ==
    /\ cpc = "pending:unreceived"
    /\ \E ok \in BOOLEAN :
        LET dest == getEnds(cIn.source).dest
            toFilter == {PacketOfItem(cIn.kind, x) : x \in cLoc.all}
            idFunc == [p \in toFilter |-> IF cIn.kind = "packets" THEN packetId(p) ELSE ackId(p)]
            asked == unreceivedQueries(toFilter, idFunc)
            query == [k \in {<<q.port, q.channel>> : q \in asked} |->
                         [sequences \in {q.sequences : q \in asked} |->
                             IF cIn.kind = "packets"
                             THEN unreceivedPackets(dest.node, k[1], k[2], sequences)
                             ELSE unreceivedAcks(dest.node, k[1], k[2], sequences)]]
            unreceived == filterUnreceived(toFilter, query, idFunc)
        IN  IF ~ok THEN /\ cpc' = "error"
                        /\ cLoc' = [cLoc EXCEPT !.queries = asked]
            ELSE /\ cLoc' = [cLoc EXCEPT
                        !.queries = asked,
                        !.result = {x \in cLoc.all :
                            PacketOfItem(cIn.kind, x).sequence
                                \in unreceived[idFunc[PacketOfItem(cIn.kind, x)]]}]
                 /\ cpc' = "returned"
    /\ UNCHANGED <<chainVars, cIn>>
    /\ PendingFrame

\* another relayer delivers a packet sent from nodeA to nodeB
DeliveredElsewhere ==
    /\ \E x \in sentPackets["nodeA"] :
        /\ x.packet \notin received["nodeB"]
        /\ received' = [received EXCEPT !["nodeB"] = @ \cup {x.packet}]
        /\ writtenAcks' = [writtenAcks EXCEPT !["nodeB"] =
               @ \cup {[originalPacket |-> x.packet, height |-> tip["nodeB"]]}]
    /\ UNCHANGED <<tip, clientLatest, sentPackets, acked, txs>>
    /\ UNCHANGED <<cpc, cIn, cLoc>>
    /\ PendingFrame

\* another relayer brings an acknowledgement written on nodeB back to nodeA
AcknowledgedElsewhere ==
    /\ \E a \in writtenAcks["nodeB"] :
        /\ a.originalPacket \notin acked["nodeA"]
        /\ acked' = [acked EXCEPT !["nodeA"] = @ \cup {a.originalPacket}]
    /\ UNCHANGED <<tip, clientLatest, sentPackets, received, writtenAcks, txs>>
    /\ UNCHANGED <<cpc, cIn, cLoc>>
    /\ PendingFrame

\* nodeA has sent some of the packets of the routes, the packet of sequence q
\* at height q; nodeB has received some of them, and nodeA some of the acks
InitPending ==
    /\ tip = [n \in Nodes |-> 2]
    /\ clientLatest = [n \in Nodes |-> Some(1)]
    /\ \E stage \in [RoutePackets -> PacketStages] :
        /\ sentPackets = [n \in Nodes |->
               IF n = "nodeA"
               THEN {[packet |-> p, height |-> p.sequence] :
                        p \in {q \in RoutePackets : stage[q] # "none"}}
               ELSE {}]
        /\ received = [n \in Nodes |->
               IF n = "nodeB"
               THEN {p \in RoutePackets : stage[p] \in {"received", "acked"}}
               ELSE {}]
        /\ writtenAcks = [n \in Nodes |->
               IF n = "nodeB"
               THEN {[originalPacket |-> p, height |-> p.sequence] :
                        p \in {q \in RoutePackets : stage[q] \in {"received", "acked"}}}
               ELSE {}]
        /\ acked = [n \in Nodes |->
               IF n = "nodeA" THEN {p \in RoutePackets : stage[p] = "acked"} ELSE {}]
    /\ txs = <<>>
    /\ link = TheLink
    /\ EstablishedSetup
    /\ InitRelayVars
    /\ InitIterVars

NextPending ==
    \/ \E kind \in {"packets", "acks"}, source \in Sides,
          minHeight \in {Undefined, Some(MaxRouteSeq)} :
           CallGetPending(kind, source, minHeight)
    \/ PendingAll
    \/ PendingUnreceived
    \/ DeliveredElsewhere
    \/ AcknowledgedElsewhere

SpecPending == InitPending /\ [][NextPending]_vars

(***************************************************************************)
(* What the two queries return.                                             *)
(***************************************************************************)
\* the chain the source side names, and the one it relays to
SourceNode == IF cIn.source = "A" THEN link.endA.node ELSE link.endB.node
DestinationNode == IF cIn.source = "A" THEN link.endB.node ELSE link.endA.node

\* the packets sent, or the acks written, on the source chain since minHeight
FetchedFromSource ==
    {x \in IF cIn.kind = "packets" THEN sentPackets[SourceNode] ELSE writtenAcks[SourceNode] :
        cIn.minHeight = Undefined \/ x.height >= cIn.minHeight[1]}

\* the destination chain has not seen the packet, or its acknowledgement
UnseenAtDestination(x) ==
    IF cIn.kind = "packets"
    THEN ~ \E p \in received[DestinationNode] :
            /\ p.destinationPort = x.packet.destinationPort
            /\ p.destinationChannel = x.packet.destinationChannel
            /\ p.sequence = x.packet.sequence
    ELSE ~ \E p \in acked[DestinationNode] :
            /\ p.sourcePort = x.originalPacket.sourcePort
            /\ p.sourceChannel = x.originalPacket.sourceChannel
            /\ p.sequence = x.originalPacket.sequence

\* the port and channel under which an item is looked up
GroupOf(x) ==
    IF cIn.kind = "packets"
    THEN <<x.packet.destinationPort, x.packet.destinationChannel>>
    ELSE <<x.originalPacket.sourcePort, x.originalPacket.sourceChannel>>

SequenceOf(x) == IF cIn.kind = "packets" THEN x.packet.sequence ELSE x.originalPacket.sequence

\* C21: getPendingPackets returns exactly the packets sent from the source
\* since minHeight that the destination reports as not received, asked per
\* (destinationPort, destinationChannel); getPendingAcks exactly the written
\* acks whose packet the destination reports as not acknowledged, asked per
\* (sourcePort, sourceChannel); there is one query per group, with the
\* sequences of that group and no others; equal sequences of different groups
\* are kept apart; an empty fetch asks nothing.
C21_PendingPerGroup ==
    [][/\ (cpc = "pending:all" /\ cpc' \notin {"pending:all", "error"}) =>
            /\ cLoc'.all = FetchedFromSource
            /\ (cLoc'.all = {}) = (cpc' = "returned")
            /\ cpc' = "returned" => cLoc'.result = {} /\ cLoc'.queries = {}
       /\ (cpc = "pending:unreceived" /\ cpc' = "returned") =>
            /\ cLoc'.result = {x \in cLoc.all : UnseenAtDestination(x)}
            /\ cLoc'.queries =
                   {[port |-> g[1], channel |-> g[2],
                     sequences |-> {SequenceOf(x) : x \in {y \in cLoc.all : GroupOf(y) = g}}] :
                       g \in {GroupOf(x) : x \in cLoc.all}}]_vars

\* getPendingPackets returned the packet of sequence 1 of one route and not
\* the packet of sequence 1 of the other route, which nodeB had received
C21_Witness ==
    /\ cpc = "returned"
    /\ cIn.kind = "packets"
    /\ Cardinality(cLoc.queries) = 2
    /\ \E r1 \in Routes, r2 \in Routes :
        /\ r1 # r2
        /\ RoutePacket(r1, 1) \in {x.packet : x \in cLoc.result}
        /\ RoutePacket(r2, 1) \in {x.packet : x \in cLoc.all \ cLoc.result}
        /\ RoutePacket(r2, 1) \in received["nodeB"]
        /\ RoutePacket(r1, 1) \notin received["nodeB"]

(***************************************************************************)
(* The connection a channel end is bound to.                                *)
(***************************************************************************)
\* the endpoint of the link on chain n
EndpointOn(n) == IF link.endA.node = n THEN link.endA ELSE link.endB

\* the connection id a channelOpenInit or channelOpenTry carries
ConnectionArg(tx) == tx.arg[4]

\* channelOpenInit carries the connection id of the endpoint on its chain
C22_InitOnSenderConnection ==
    \A i \in 1..Len(txs) :
        txs[i].msg = "channelOpenInit" =>
            ConnectionArg(txs[i]) = EndpointOn(txs[i].node).connectionID

\* C22: each channel end createChannel opens is bound to the connection id of
\* the endpoint on whose chain it is created: channelOpenInit carries the
\* sender endpoint's connectionID and channelOpenTry the other endpoint's own
\* connectionID, also when the two connection ids differ.
C22_ChannelEndsOnOwnConnection ==
    /\ \A i \in 1..Len(txs) :
        txs[i].msg \in {"channelOpenInit", "channelOpenTry"} =>
            ConnectionArg(txs[i]) = EndpointOn(txs[i].node).connectionID
    /\ \A n \in Nodes :
        channelEnd[n] # Undefined =>
            channelEnd[n][1].connectionId = EndpointOn(n).connectionID

\* with equal connection ids on the two ends the channel ends are on their own
C22_SameIdsOnly ==
    link.endA.connectionID = link.endB.connectionID => C22_ChannelEndsOnOwnConnection

(***************************************************************************)
(* A packet relay that fails.                                               *)
(***************************************************************************)
\* relayPackets of side s has failed in the running iteration
PacketRelayFailed(s) == rkind[s] = "packets" /\ rpc[s] = "error"

\* the broadcasts of msg on chain n in the running iteration
TxsOn(n, msg) == {i \in 1..Len(txs) : txs[i].node = n /\ txs[i].msg = msg}

\* C23: when the packet relay of a direction fails, the iteration fails and
\* returns no cursor, no pending-ack query and no acknowledgePackets is
\* started in it, and nothing is retried: the failed relay takes no further
\* step and no message is broadcast twice on a chain.  The packet relay of
\* the other direction is not cancelled.
C23_PacketRelayFailureEndsIteration ==
    [][(\E s \in Sides : PacketRelayFailed(s)) =>
        /\ ipc \in {"relayPackets", "error"}
        /\ ipc' \in {"relayPackets", "error"}
        /\ ipc = "error" => ipc' = "error"
        /\ Len(returned) < iterations
        /\ returned' = returned
        /\ fetched' = Sides
        /\ TxsOf("acknowledgePackets") = {}
        /\ \A i \in 1..Len(txs') : txs'[i].msg # "acknowledgePackets"
        /\ \A s \in Sides :
            PacketRelayFailed(s) =>
                /\ rpc'[s] = "error"
                /\ rkind'[s] = "packets"
                /\ TxsOn(destNode(s), "updateClient")' = TxsOn(destNode(s), "updateClient")
                /\ TxsOn(destNode(s), "receivePackets")' = TxsOn(destNode(s), "receivePackets")
        /\ \A n \in Nodes, msg \in {"updateClient", "receivePackets"} :
            Cardinality(TxsOn(n, msg)') <= 1]_vars

\* the iteration has failed on the packet relay of side A, whose receivePackets
\* was rejected, and the packet relay of side B has delivered its packet
C23_Witness ==
    /\ ipc = "error"
    /\ PacketRelayFailed("A")
    /\ TxsOn(destNode("A"), "receivePackets") # {}
    /\ pendingAtStart["A"] # {}
    /\ rkind["B"] = "packets" /\ rpc["B"] = "done"
    /\ pendingAtStart["B"] # {}
    /\ {x.packet : x \in pendingAtStart["B"]} \subseteq received[destNode("B")]

\* a failed iteration that stops the relay of the other direction: this does
\* not hold of Promise.all, which leaves the other promise running
C23_NoBroadcastAfterFailure ==
    [][ipc = "error" => txs' = txs]_vars

(***************************************************************************)
(* The surrounding loop re-enters checkAndRelayPacketsAndAcks after an      *)
(* iteration that failed (spec 6: the loop decides whether to re-enter).    *)
(* Promise.all (link.ts 437-440, 447) rejects on the first failure and      *)
(* leaves the relay of the other direction running: its frame is kept in    *)
(* cpc (position), cIn (arguments) and cLoc (locals), and it goes on with   *)
(* the steps of relayPackets / relayAcks.                                   *)
(***************************************************************************)
\* the relays of the failed iteration that have not settled
StillRunning == {s \in Sides : rpc[s] \notin {"idle", "done", "error"}}

\* the caller, having awaited the failed iteration, starts the next one with
\* the cursor it has
Reenter ==
    /\ ipc = "error"
    /\ cpc = "idle"
    /\ iterations < MaxIterations
    /\ IF StillRunning = {}
       THEN UNCHANGED <<cpc, cIn, cLoc>>
       ELSE LET o == CHOOSE s \in Sides : s \in StillRunning
            IN  /\ cpc' = rpc[o]
                /\ cIn' = [side |-> o, kind |-> rkind[o], min |-> rMin[o], items |-> rItems[o]]
                /\ cLoc' = [header |-> rHeader[o], proofs |-> rProofs[o],
                            waitFrom |-> waitFrom[o]]
    /\ relayFrom' = IF returned = <<>> THEN relayFrom ELSE returned[Len(returned)]
    /\ ipc' = "getPackets"
    /\ fetched' = {}
    /\ pendingAtStart' = [s \in Sides |-> {}]
    /\ iterations' = iterations + 1
    /\ txs' = <<>>
    /\ ResetRelayVars
    /\ UNCHANGED <<tip, clientLatest, sentPackets, received, writtenAcks, acked>>
    /\ UNCHANGED <<ibcVars, link, returned>>

OrphanFrame == UNCHANGED <<ibcVars, link, relayVars, iterVars, cIn>>

\* updateClientToHeight of the relay left running: stateTm and the early return
OrphanState ==
    /\ cpc = "ucState"
    /\ \E ok \in BOOLEAN :
        LET client == clientLatest[getEnds(cIn.side).dest.node]
            knownHeight == revisionHeightOrZero(client)
        IN  IF ~ok
            THEN cpc' = "failed" /\ UNCHANGED cLoc
            ELSE IF knownHeightSuffices(knownHeight, cIn.min, client)
            THEN cpc' = "ucReturned" /\ cLoc' = [cLoc EXCEPT !.header = client]
            ELSE cpc' = "ucHeader" /\ UNCHANGED cLoc
    /\ UNCHANGED chainVars
    /\ OrphanFrame

\* latestHeader, and whether to wait a block
OrphanHeader ==
    /\ cpc = "ucHeader"
    /\ \E ok \in BOOLEAN :
        LET curHeight == tip[getEnds(cIn.side).src.node]
        IN  IF ~ok
            THEN cpc' = "failed" /\ UNCHANGED cLoc
            ELSE IF curHeight < cIn.min
            THEN cpc' = "ucWait" /\ cLoc' = [cLoc EXCEPT !.waitFrom = curHeight]
            ELSE cpc' = "ucUpdate" /\ UNCHANGED cLoc
    /\ UNCHANGED chainVars
    /\ OrphanFrame

OrphanWait ==
    /\ cpc = "ucWait"
    /\ tip[getEnds(cIn.side).src.node] > cLoc.waitFrom
    /\ cpc' = "ucUpdate"
    /\ UNCHANGED <<chainVars, cLoc>>
    /\ OrphanFrame

\* return this.updateClient(source)
OrphanUpdate ==
    /\ cpc = "ucUpdate"
    /\ LET ends == getEnds(cIn.side)
       IN  /\ txs' = Broadcast(ends.dest.node, "updateClient")
           /\ \E ok \in BOOLEAN :
               IF ok
               THEN /\ clientLatest' = doUpdateClient(ends.dest, ends.src)
                    /\ cLoc' = [cLoc EXCEPT !.header = Some(tip[ends.src.node])]
                    /\ cpc' = "ucReturned"
               ELSE /\ cpc' = "failed"
                    /\ UNCHANGED <<clientLatest, cLoc>>
    /\ UNCHANGED <<tip, sentPackets, received, writtenAcks, acked>>
    /\ OrphanFrame

\* getPacketProof / getAckProof of one item
OrphanProof(x) ==
    /\ cpc = "ucReturned"
    /\ cIn.kind \in {"packets", "acks"}
    /\ x \in cIn.items
    /\ ~ \E pr \in cLoc.proofs : pr.item = x
    /\ \E ok \in BOOLEAN :
        IF ok
        THEN /\ cLoc' = [cLoc EXCEPT !.proofs = @ \cup {[item |-> x, height |-> cLoc.header]}]
             /\ UNCHANGED cpc
        ELSE /\ cpc' = "failed"
             /\ UNCHANGED cLoc
    /\ UNCHANGED chainVars
    /\ OrphanFrame

\* the proofs of the relay left running, fetched in parallel
OrphanProofs == cpc = "ucReturned" /\ \E x \in cIn.items : OrphanProof(x)

\* receivePackets / acknowledgePackets of the relay left running
OrphanBroadcast ==
    /\ cpc = "ucReturned"
    /\ cIn.kind \in {"packets", "acks"}
    /\ \A x \in cIn.items : \E pr \in cLoc.proofs : pr.item = x
    /\ LET dest == getEnds(cIn.side).dest.node
           packets == submit(cIn.kind, cIn.items)
           msg == IF cIn.kind = "packets" THEN "receivePackets" ELSE "acknowledgePackets"
       IN  /\ txs' = Append(txs, [node |-> dest, msg |-> msg, packets |-> packets,
                                  proofHeight |-> cLoc.header])
           /\ \E ok \in BOOLEAN :
               IF ok
               THEN /\ IF cIn.kind = "packets"
                       THEN receivePackets(dest, packets)
                       ELSE acknowledgePackets(dest, packets)
                    /\ cpc' = "settled"
               ELSE /\ cpc' = "failed"
                    /\ UNCHANGED <<received, writtenAcks, acked>>
    /\ UNCHANGED <<tip, clientLatest, sentPackets, cLoc>>
    /\ OrphanFrame

\* nodeA has sent one packet, nothing was relayed, and the loop
\* has called its first iteration with an empty cursor
InitReentry ==
    /\ tip = [n \in Nodes |-> 2]
    /\ clientLatest = [n \in Nodes |-> Some(1)]
    /\ sentPackets = [n \in Nodes |->
           IF n = "nodeA" THEN {[packet |-> PacketOf(1), height |-> 1]} ELSE {}]
    /\ received = [n \in Nodes |-> {}]
    /\ writtenAcks = [n \in Nodes |-> {}]
    /\ acked = [n \in Nodes |-> {}]
    /\ txs = <<>>
    /\ link = TheLink
    /\ EstablishedSetup
    /\ InitRelayVars
    /\ ipc = "getPackets"
    /\ relayFrom = [f \in CursorFields |-> Undefined]
    /\ pendingAtStart = [s \in Sides |-> {}]
    /\ fetched = {}
    /\ iterations = 1
    /\ returned = <<>>

NextReentry ==
    \/ \E n \in Nodes : AdvanceBlock(n)
    \/ Reenter
    \/ \E s \in Sides : FetchPackets(s)
    \/ \E s \in Sides : UcState(s)
    \/ \E s \in Sides : UcHeader(s)
    \/ \E s \in Sides : UcWait(s)
    \/ \E s \in Sides : UcUpdate(s)
    \/ \E s \in Sides : \E x \in rItems[s] : RelayProof(s, x)
    \/ \E s \in Sides : RelayBroadcast(s)
    \/ PacketsRelayed
    \/ \E s \in Sides : FetchAcks(s)
    \/ AcksRelayed
    \/ IterationReturned
    \/ IterationFails
    \/ OrphanState
    \/ OrphanHeader
    \/ OrphanWait
    \/ OrphanUpdate
    \/ OrphanProofs
    \/ OrphanBroadcast

SpecReentry == InitReentry /\ [][NextReentry]_vars

(***************************************************************************)
(* Broadcasts in flight on a chain's signing client.                        *)
(***************************************************************************)
\* the relay of side s awaits a broadcast: doUpdateClient, or receivePackets /
\* acknowledgePackets once its proofs are there
Broadcasting(s) ==
    \/ rpc[s] = "ucUpdate"
    \/ /\ rpc[s] = "ucReturned"
       /\ rkind[s] \in {"packets", "acks"}
       /\ \A x \in rItems[s] : \E pr \in rProofs[s] : pr.item = x

\* the relay left running by the failed iteration awaits a broadcast
OrphanBroadcasting ==
    \/ cpc = "ucUpdate"
    \/ /\ cpc = "ucReturned"
       /\ \A x \in cIn.items : \E pr \in cLoc.proofs : pr.item = x

\* the number of broadcasts in flight on chain n
InFlightOn(n) ==
    Cardinality({s \in Sides : Broadcasting(s) /\ destNode(s) = n})
        + (IF OrphanBroadcasting /\ destNode(cIn.side) = n THEN 1 ELSE 0)

\* the positions of an iteration in which relays run
Relaying == {"relayPackets", "relayAcks"}

\* the broadcasts of the relays of the running iteration: the A-sourced
\* direction broadcasts on B only and the B-sourced one on A only, a relay
\* broadcasts its packets or acks only after its client update has returned,
\* and the ack phase starts only when both packet relays have finished
C24_OwnBroadcastsInOrder ==
    [][/\ \A s \in Sides :
            (ipc \in Relaying /\ rpc'[s] # rpc[s] /\ Len(txs') = Len(txs) + 1) =>
                /\ txs'[Len(txs')].node = NodeOfSide(otherSide(s))
                /\ rpc[s] \in {"ucUpdate", "ucReturned"}
                /\ rpc[s] = "ucUpdate" <=> txs'[Len(txs')].msg = "updateClient"
                /\ rpc[s] = "ucReturned" => rpc'[s] \in {"done", "error"}
       /\ (ipc = "relayPackets" /\ ipc' \in {"getAcks", "relayAcks"}) =>
            \A s \in Sides : rpc[s] = "done"
       /\ (ipc' = "relayAcks" /\ ipc # "relayAcks") => ipc = "getAcks"]_vars

\* C24: during an iteration driven by a single caller no two broadcasts are in
\* flight on the signing client of the same chain: the A-sourced direction
\* broadcasts only on B and the B-sourced one only on A, in the packet phase
\* and in the ack phase; the client update of a direction completes before
\* its receive or ack broadcast starts; the ack phase starts only after both
\* packet relays have finished.
C24_OneBroadcastPerChain ==
    [][/\ ipc \notin {"idle", "done", "error"} => \A n \in Nodes : InFlightOn(n) <= 1
       /\ \A s \in Sides :
            (ipc \in Relaying /\ rpc'[s] # rpc[s] /\ Len(txs') = Len(txs) + 1) =>
                /\ txs'[Len(txs')].node = NodeOfSide(otherSide(s))
                /\ rpc[s] = "ucUpdate" <=> txs'[Len(txs')].msg = "updateClient"
                /\ rpc[s] = "ucReturned" => rpc'[s] \in {"done", "error"}
       /\ (ipc = "relayPackets" /\ ipc' \in {"getAcks", "relayAcks"}) =>
            \A s \in Sides : rpc[s] = "done"]_vars

\* in the iteration the caller re-entered, the relay of side A awaits its
\* client update on nodeB while the relay of side A that the failed iteration
\* left running still awaits its own
C24_TwoUpdatesInFlight ==
    /\ ipc = "relayPackets"
    /\ iterations = 2
    /\ rpc["A"] = "ucUpdate"
    /\ rItems["A"] # {}
    /\ cpc = "ucUpdate"
    /\ cIn.side = "A"
    /\ cIn.items # {}
    /\ InFlightOn("nodeB") = 2

(***************************************************************************)
(* The app file the ics20 command writes back.                              *)
(***************************************************************************)
\* the connection ids of the link, as the app file holds them
ConnectionsOfLink ==
    [srcConnection |-> Some(link.endA.connectionID),
     destConnection |-> Some(link.endB.connectionID)]

\* the messages of the channel handshake
ChannelMessages ==
    {"channelOpenInit", "channelOpenTry", "channelOpenAck", "channelOpenConfirm"}

\* a transaction of the channel handshake has been broadcast
ChannelStarted == \E i \in 1..Len(txs) : txs[i].msg \in ChannelMessages

\* C25: run writes the app file with srcConnection = the connection id of the
\* link's endA and destConnection = that of endB, after the link was resolved
\* and before the first transaction of the channel handshake, so the ids stay
\* in the file when createChannel fails; when the link is not resolved the
\* file is not written.
C25_AppFileWrittenBeforeChannel ==
    [][/\ link = NoLink => cIn.appFile = cIn.app
       /\ cIn'.appFile # cIn.appFile =>
            /\ link # NoLink
            /\ cpc = "returned"
            /\ ~ChannelStarted
            /\ txs' = txs
            /\ cIn'.appFile = ConnectionsOfLink
       /\ ChannelStarted => cIn.appFile = ConnectionsOfLink
       /\ cIn.channel => cIn.appFile = ConnectionsOfLink /\ cIn'.appFile = cIn.appFile
       /\ (cpc = "returned" /\ ~cIn.channel /\ cpc' # "error") =>
            cIn'.appFile = ConnectionsOfLink /\ cIn'.channel]_vars

\* the command created connections and wrote their ids to the app file, which
\* held none, and createChannel failed on its rejected channelOpenTry
C25_Witness ==
    /\ cpc = "error"
    /\ cIn.channel
    /\ cIn.app = [srcConnection |-> Undefined, destConnection |-> Undefined]
    /\ cIn.appFile = ConnectionsOfLink
    /\ Len(txs) = 8
    /\ txs[8].msg = "channelOpenTry"
    /\ ~txs[8].ok

(***************************************************************************)
(* setupPrometheus (unnamed/part_000 50-89) and the module's flag           *)
(* `initialized` (7).  The function has no await: a call is one step.  cIn  *)
(* is the list of the calls made in the process, cLoc the state of the      *)
(* module and of the process: the flag, the ports servers listen on, and    *)
(* what each call returned or threw.                                        *)
(***************************************************************************)
\* bound: the calls of setupPrometheus in a process
MaxCalls == 4

\* a port a server can listen on, and one that server.listen rejects
MetricsPorts == {8080, 70000}
legalPort(port) == port \in 0..65535

initialized == cLoc.initialized
listening == cLoc.listening
outcomes == cLoc.outcomes

\* a flag that is set only by a call that starts the server
initializedAfterEnabled(enabled) == enabled

\* initialized = true (64), before enabled is looked at
initializedAfter(enabled) == TRUE

\* setupPrometheus({enabled, port, logger})
SetupPrometheus(enabled, port) ==
    /\ Len(cIn) < MaxCalls
    /\ cIn' = Append(cIn, [enabled |-> enabled, port |-> port])
    /\ IF initialized
       THEN cLoc' = [cLoc EXCEPT !.outcomes = Append(@, "threw: initialized more than once")]
       ELSE IF ~enabled
       THEN cLoc' = [cLoc EXCEPT !.initialized = initializedAfter(enabled),
                                 !.outcomes = Append(@, "null")]
       ELSE IF ~legalPort(port)
       THEN cLoc' = [cLoc EXCEPT !.initialized = initializedAfter(enabled),
                                 !.outcomes = Append(@, "threw: bad port")]
       ELSE cLoc' = [cLoc EXCEPT !.initialized = initializedAfter(enabled),
                                 !.listening = Append(@, port),
                                 !.outcomes = Append(@, "metrics")]
    /\ UNCHANGED <<chainVars, ibcVars, cpc, link, relayVars, iterVars>>

\* a process that has loaded the module
InitPrometheus ==
    /\ tip = [n \in Nodes |-> 1]
    /\ clientLatest = [n \in Nodes |-> Some(1)]
    /\ QuietChains
    /\ chainId = [n \in Nodes |-> ChainIdOf(n)]
    /\ clientState = [n \in Nodes |-> [chainId |-> ChainIdOf(otherNode(n))]]
    /\ consensusState = [n \in Nodes |-> MatchingConsensus(n)]
    /\ header = TheHeaders
    /\ connection = [n \in Nodes |-> Undefined]
    /\ channelEnd = [n \in Nodes |-> Undefined]
    /\ nextSeq = [n \in Nodes |-> [client |-> 0, connection |-> 0, channel |-> 0]]
    /\ cpc = "idle"
    /\ cIn = <<>>
    /\ cLoc = [initialized |-> FALSE, listening |-> <<>>, outcomes |-> <<>>]
    /\ link = NoLink
    /\ InitRelayVars
    /\ InitIterVars

NextPrometheus ==
    \E enabled \in BOOLEAN, port \in MetricsPorts : SetupPrometheus(enabled, port)

SpecPrometheus == InitPrometheus /\ [][NextPrometheus]_vars

\* the calls that returned
Completed == {i \in 1..Len(outcomes) : outcomes[i] \in {"null", "metrics"}}

\* C26: setupPrometheus completes at most once in a process: the first call
\* marks the module initialized, and returns null when enabled is false, and
\* otherwise starts the metrics server and returns the metrics; every later
\* call throws and starts no server, also after a first call with enabled
\* false.
C26_SetupCompletesOnce ==
    [][/\ Cardinality(Completed) <= 1
       /\ Len(listening) <= 1
       /\ Len(outcomes') = Len(outcomes) + 1 =>
            LET call == cIn'[Len(cIn')]
                outcome == outcomes'[Len(outcomes')]
            IN  /\ initialized'
                /\ Len(outcomes) = 0 =>
                    /\ ~call.enabled => outcome = "null" /\ listening' = <<>>
                    /\ (call.enabled /\ legalPort(call.port)) =>
                            outcome = "metrics" /\ listening' = <<call.port>>
                    /\ outcome \in {"null", "metrics"} \/ ~legalPort(call.port)
                /\ Len(outcomes) > 0 =>
                    /\ outcome \notin {"null", "metrics"}
                    /\ listening' = listening]_vars

\* the first call was made with enabled false and returned null; a later call
\* with enabled true threw, and no server listens
C26_Witness ==
    /\ Len(cIn) >= 2
    /\ ~cIn[1].enabled
    /\ outcomes[1] = "null"
    /\ cIn[2].enabled /\ legalPort(cIn[2].port)
    /\ outcomes[2] = "threw: initialized more than once"
    /\ listening = <<>>

====
